---------------------------- MODULE Spec2Model ----------------------------
(***************************************************************************)
(* PDF_MERGER: the merge-and-recompress pipeline.                          *)
(*                                                                         *)
(*   extractPdfsFromZip  (lib/unzip,    src/unnamed/part_003)              *)
(*   mergePdfs/repairPdf (lib/merge,    src/lib/merge.ts)                  *)
(*   compressPdf         (lib/compress, src/lib/compress.ts: in-process    *)
(*                        re-encoding; src/unnamed/part_002: Ghostscript)  *)
(*   POST /api/merge     (route, src/unnamed/part_001 lines 1-80: any      *)
(*                        number of "files" parts; src/unnamed/part_000:   *)
(*                        the three named parts pdf, zip1, zip2)           *)
(*                                                                         *)
(* Byte strings are abstracted to records: an identity, a length and what  *)
(* the parsers make of them.  Lengths are counted in abstract units; a     *)
(* saved document of n pages is n units long.  Text (file and entry        *)
(* names) is a sequence of one-character strings.                          *)
(***************************************************************************)
EXTENDS Integers, Sequences, FiniteSets, TLC

(***************************************************************************)
(* Bounds of the model.                                                    *)
(***************************************************************************)
\* longest list handed to mergePdfs when it is called directly
MaxBlobs == 3
\* most parts in one multipart request
MaxParts == 2
\* longest buffer (input or tier output) compressPdf meets when called directly
MaxLen == 4

\* most entries in an archive given to extractPdfsFromZip directly
MaxEntries == 3

\* most times the user adds or removes a file
MaxChanges == 2
\* most merge requests the page sends
MaxRequests == 2
\* most invocations of repairPdf and ghostscriptCompress in one run
MaxCalls == 2
\* most objects in the table of a document given to reencodeImages
MaxObjects == 2
\* longest JPEG the encoder returns for one image
MaxEncoded == 4

\* lib/constants (imported at src/lib/compress.ts line 3); scaled to the
\* abstract length unit so that documents on both sides of the budget occur
MAX_OUTPUT_SIZE == 2

(***************************************************************************)
(* Text.                                                                   *)
(***************************************************************************)
Digits == <<"0", "1", "2", "3", "4", "5", "6", "7", "8", "9">>
LowerChars ==
  <<"a", "b", "c", "d", "e", "f", "g", "h", "i", "j", "k", "l", "m",
    "n", "o", "p", "q", "r", "s", "t", "u", "v", "w", "x", "y", "z">>
UpperChars ==
  <<"A", "B", "C", "D", "E", "F", "G", "H", "I", "J", "K", "L", "M",
    "N", "O", "P", "Q", "R", "S", "T", "U", "V", "W", "X", "Y", "Z">>
\* punctuation in the order of the root collation
PunctChars == <<"_", "-", ".", "/">>

IndexOf(seq, c) ==
  IF \E k \in 1..Len(seq) : seq[k] = c
  THEN CHOOSE k \in 1..Len(seq) : seq[k] = c
  ELSE 0

IsDigit(c) == IndexOf(Digits, c) > 0
IsUpper(c) == IndexOf(UpperChars, c) > 0

\* String.prototype.toLowerCase
toLowerCase(s) ==
  [k \in 1..Len(s) |->
     IF IsUpper(s[k]) THEN LowerChars[IndexOf(UpperChars, s[k])] ELSE s[k]]

\* String.prototype.startsWith / endsWith
startsWith(s, p) == Len(s) >= Len(p) /\ SubSeq(s, 1, Len(p)) = p
endsWith(s, p) == Len(s) >= Len(p) /\ SubSeq(s, Len(s) - Len(p) + 1, Len(s)) = p

\* s.split("/").pop(): what follows the last "/" (all of s when it has none)
LastSegment(s) ==
  LET slashes == {k \in 1..Len(s) : s[k] = "/"}
      last == IF slashes = {} THEN 0
              ELSE CHOOSE k \in slashes : \A j \in slashes : j <= k
  IN SubSeq(s, last + 1, Len(s))

(***************************************************************************)
(* a.localeCompare(b, undefined, {numeric: true}): the root collation with *)
(* numeric ordering.  Primary level: punctuation < numbers < letters, a    *)
(* run of digits weighs as the number it writes, letters by alphabet       *)
(* without case.  Strings equal at the primary level are told apart by     *)
(* case, lower case first.                                                 *)
(***************************************************************************)
DigitRunLen(s) ==
  IF \E k \in 1..Len(s) : ~IsDigit(s[k])
  THEN (CHOOSE k \in 1..Len(s) :
          ~IsDigit(s[k]) /\ \A j \in 1..(k - 1) : IsDigit(s[j])) - 1
  ELSE Len(s)

RECURSIVE NumVal(_)
NumVal(s) ==
  IF s = <<>> THEN 0
  ELSE 10 * NumVal(SubSeq(s, 1, Len(s) - 1)) + (IndexOf(Digits, s[Len(s)]) - 1)

CharWeight(c) ==
  IF IndexOf(PunctChars, c) > 0 THEN [cls |-> 0, w |-> IndexOf(PunctChars, c)]
  ELSE IF IsUpper(c) THEN [cls |-> 2, w |-> IndexOf(UpperChars, c)]
  ELSE [cls |-> 2, w |-> IndexOf(LowerChars, c)]

RECURSIVE PrimaryKey(_)
PrimaryKey(s) ==
  IF s = <<>> THEN <<>>
  ELSE IF IsDigit(s[1])
  THEN LET n == DigitRunLen(s)
       IN <<[cls |-> 1, w |-> NumVal(SubSeq(s, 1, n))]>>
            \o PrimaryKey(SubSeq(s, n + 1, Len(s)))
  ELSE <<CharWeight(s[1])>> \o PrimaryKey(Tail(s))

\* the case of each character that is not a digit: 0 lower, 1 upper
CaseKey(s) ==
  LET rest == SelectSeq(s, LAMBDA c : ~IsDigit(c))
  IN [k \in 1..Len(rest) |-> [cls |-> 0, w |-> IF IsUpper(rest[k]) THEN 1 ELSE 0]]

RECURSIVE CompareKeys(_, _)
CompareKeys(x, y) ==
  IF x = <<>> /\ y = <<>> THEN 0
  ELSE IF x = <<>> THEN -1
  ELSE IF y = <<>> THEN 1
  ELSE IF x[1].cls # y[1].cls THEN (IF x[1].cls < y[1].cls THEN -1 ELSE 1)
  ELSE IF x[1].w # y[1].w THEN (IF x[1].w < y[1].w THEN -1 ELSE 1)
  ELSE CompareKeys(Tail(x), Tail(y))

\* the primary key without numeric ordering: every digit weighs by itself
PlainKey(s) ==
  [k \in 1..Len(s) |->
     IF IsDigit(s[k]) THEN [cls |-> 1, w |-> IndexOf(Digits, s[k])]
     ELSE CharWeight(s[k])]

\* a.localeCompare(b) as PDFFileList calls it: the root collation without
\* options
localeCompareDefault(a, b) ==
  LET p == CompareKeys(PlainKey(a), PlainKey(b))
  IN IF p # 0 THEN p ELSE CompareKeys(CaseKey(a), CaseKey(b))

\* a comparison without numeric ordering
localeCompare_plain(a, b) == localeCompareDefault(a, b)

localeCompare(a, b) ==
  LET p == CompareKeys(PrimaryKey(a), PrimaryKey(b))
  IN IF p # 0 THEN p ELSE CompareKeys(CaseKey(a), CaseKey(b))

(***************************************************************************)
(* Array.prototype.sort with the comparator of extractPdfsFromZip: a       *)
(* stable sort, elements that compare equal keep their order.              *)
(***************************************************************************)
InsertByName(sorted, e) ==
  LET after == {k \in 1..Len(sorted) : localeCompare(sorted[k].name, e.name) <= 0}
      n == IF after = {} THEN 0 ELSE CHOOSE k \in after : \A j \in after : j <= k
  IN SubSeq(sorted, 1, n) \o <<e>> \o SubSeq(sorted, n + 1, Len(sorted))

RECURSIVE SortByName(_)
SortByName(list) ==
  IF list = <<>> THEN <<>>
  ELSE InsertByName(SortByName(SubSeq(list, 1, Len(list) - 1)), list[Len(list)])

(***************************************************************************)
(* Byte strings.                                                           *)
(*   len     Buffer.length                                                 *)
(*   parses  PDFDocument.load and copyPages succeed on these bytes         *)
(*   pages   the pages the document holds once it can be opened (as        *)
(*           written, or after repair)                                     *)
(*   rev     0 as submitted, 1 once rewritten by repairPdf                 *)
(*   isZip   AdmZip can read the bytes as an archive                       *)
(*   entries the archive's entries, in the archive's physical order        *)
(***************************************************************************)
PdfBytes(id, len, parses, pages) ==
  [id |-> id, len |-> len, parses |-> parses, pages |-> pages, rev |-> 0,
   isZip |-> FALSE, entries |-> <<>>]

ZipBytes(id, entries) ==
  [id |-> id, len |-> 1 + Len(entries), parses |-> FALSE, pages |-> 0,
   rev |-> 0, isZip |-> TRUE, entries |-> entries]

JunkBytes(id) ==
  [id |-> id, len |-> 1, parses |-> FALSE, pages |-> 0, rev |-> 0,
   isZip |-> FALSE, entries |-> <<>>]

ZipEntry(entryName, data) == [entryName |-> entryName, data |-> data]

\* adm-zip: an entry is a directory when its name ends with "/"
isDirectory(entry) == endsWith(entry.entryName, <<"/">>)

(***************************************************************************)
(* extractPdfsFromZip: filter, map to {name, buffer}, sort by name.        *)
(* new AdmZip(zipBuffer) throws when the bytes are no archive.             *)
(***************************************************************************)
\* a reader that takes any bytes for an archive without entries
AdmZipThrows_never(zipBuffer) == FALSE

AdmZipThrows(zipBuffer) == ~zipBuffer.isZip

\* a filter that lets hidden files through
EntryKept_hidden(entry) ==
  /\ ~isDirectory(entry)
  /\ ~startsWith(entry.entryName, <<"_", "_", "M", "A", "C", "O", "S", "X">>)
  /\ endsWith(toLowerCase(entry.entryName), <<".", "p", "d", "f">>)

EntryKept(entry) ==
  /\ ~isDirectory(entry)
  /\ ~startsWith(entry.entryName, <<"_", "_", "M", "A", "C", "O", "S", "X">>)
  /\ ~startsWith(entry.entryName, <<".">>)
  /\ endsWith(toLowerCase(entry.entryName), <<".", "p", "d", "f">>)

ExtractedPdf(entry) ==
  [name |-> IF LastSegment(entry.entryName) # <<>>
            THEN LastSegment(entry.entryName)
            ELSE entry.entryName,
   buffer |-> entry.data]

extractPdfsFromZip(zipBuffer) ==
  LET kept == SelectSeq(zipBuffer.entries, EntryKept)
  IN SortByName([k \in 1..Len(kept) |-> ExtractedPdf(kept[k])])

(***************************************************************************)
(* PDFFileList (src/components/DownloadButton.tsx 54-154), the list under  *)
(* "PDFs to be merged".  For a ZIP: the keys of zip.files, filtered,       *)
(* sorted by full path with the default comparison, shown by their last    *)
(* segment.  validatePDF reads an entry's bytes to mark it; it removes and *)
(* reorders nothing and is left out.                                       *)
(***************************************************************************)
\* line 123, Object.keys(zip.files): the entries' names in the archive's
\* order
ZipFileNames(zipBytes) ==
  [k \in 1..Len(zipBytes.entries) |-> zipBytes.entries[k].entryName]

\* lines 124-126: the three filters
PreviewKept(n) ==
  /\ endsWith(toLowerCase(n), <<".", "p", "d", "f">>)
  /\ ~endsWith(n, <<"/">>)
  /\ ~startsWith(n, <<"_", "_", "M", "A", "C", "O", "S", "X", "/">>)
  /\ ~startsWith(n, <<".">>)

\* line 127: .sort((a, b) => a.localeCompare(b)), a stable sort
InsertPath(sorted, n) ==
  LET after == {k \in 1..Len(sorted) : localeCompareDefault(sorted[k], n) <= 0}
      m == IF after = {} THEN 0 ELSE CHOOSE k \in after : \A j \in after : j <= k
  IN SubSeq(sorted, 1, m) \o <<n>> \o SubSeq(sorted, m + 1, Len(sorted))

RECURSIVE SortPaths(_)
SortPaths(list) ==
  IF list = <<>> THEN <<>>
  ELSE InsertPath(SortPaths(SubSeq(list, 1, Len(list) - 1)), list[Len(list)])

\* lines 134-139: the row of one entry
FileInfo(name, source) == [name |-> name, source |-> source]

\* lines 122-141: the rows of one ZIP
ZipInfos(file) ==
  LET pdfEntries == SortPaths(SelectSeq(ZipFileNames(file.bytes), PreviewKept))
  IN [k \in 1..Len(pdfEntries) |->
        FileInfo(IF LastSegment(pdfEntries[k]) # <<>>
                 THEN LastSegment(pdfEntries[k]) ELSE pdfEntries[k],
                 file.name)]

\* lines 108-142: the rows of one file of the prop
FileInfos(file) ==
  IF endsWith(toLowerCase(file.name), <<".", "p", "d", "f">>)
  THEN <<FileInfo(file.name, <<"P", "D", "F">>)>>
  ELSE IF endsWith(toLowerCase(file.name), <<".", "z", "i", "p">>)
  THEN ZipInfos(file)
  ELSE <<>>

\* line 122: JSZip.loadAsync rejects for a .zip that is no archive
JSZipThrows(file) ==
  /\ endsWith(toLowerCase(file.name), <<".", "z", "i", "p">>)
  /\ ~file.bytes.isZip

\* lines 104-145: the list loadFiles builds for the prop, or its failure
RECURSIVE FileList(_)
FileList(fs) ==
  IF fs = <<>> THEN <<>>
  ELSE FileInfos(fs[1]) \o FileList(Tail(fs))

LoadFails(fs) == \E k \in 1..Len(fs) : JSZipThrows(fs[k])

\* extractedPdfs.map((p) => p.buffer)
Buffers(extractedPdfs) ==
  [k \in 1..Len(extractedPdfs) |-> extractedPdfs[k].buffer]

\* one record per call of extractPdfsFromZip: the bytes it was given, whether
\* it threw, the list it returned
ZipCall(zipBytes) ==
  [zip |-> zipBytes,
   threw |-> AdmZipThrows(zipBytes),
   out |-> IF AdmZipThrows(zipBytes) THEN <<>>
           ELSE extractPdfsFromZip(zipBytes)]

(***************************************************************************)
(* The inputs of the model.                                                *)
(***************************************************************************)
\* PDF byte strings: well-formed ones, a malformed one (the first
\* PDFDocument.load or copyPages on it throws), an empty one
BlobA == PdfBytes("A", 2, TRUE, 2)
Blob_a == PdfBytes("a", 1, TRUE, 1)
Blob_b == PdfBytes("b", 1, TRUE, 1)
BlobBad == PdfBytes("M", 1, FALSE, 1)
BlobEmpty == PdfBytes("E", 0, FALSE, 0)

BlobCatalogue == {BlobA, Blob_a, BlobBad, BlobEmpty}

RECURSIVE SeqsUpTo(_, _)
SeqsUpTo(S, n) ==
  IF n = 0 THEN {<<>>}
  ELSE LET shorter == SeqsUpTo(S, n - 1)
       IN shorter \cup
            {Append(s, x) : s \in {t \in shorter : Len(t) = n - 1}, x \in S}

(***************************************************************************)
(* State.                                                                  *)
(***************************************************************************)
VARIABLES
  \* mergePdfs
  buffers,       \* the argument
  i,             \* the loop index (1-based)
  buf,           \* the bytes being opened: buffers[i], or its repair
  merged,        \* the pages added to the merged document, in order
  mpc,           \* idle | loop | repair | retry | returned | threw
  mlog,          \* what was run on which blob: load, repair, retry
  mergeResult,   \* the buffer returned, or the error thrown
  mergeCalls,    \* calls of mergePdfs
  \* compressPdf
  variant,       \* the lib/compress in the build: "sharp" (src/lib/compress.ts)
                 \* or "gs" (src/unnamed/part_002)
  compressArg,   \* the argument, as passed
  inputBuffer,   \* the parameter (the Ghostscript variant reassigns it)
  pass,          \* index of the next pass of the ladder (1-based)
  clog,          \* the passes attempted: the input given, what came out
  cpc,           \* idle | start | loop | returned | threw
  compressResult,
  compressCalls, \* calls of compressPdf
  \* POST /api/merge
  route,         \* "files" (src/unnamed/part_001) or "three" (part_000)
  formData,      \* the request's parts, in submission order
  fileIdx,       \* the loop over uploadedFiles (1-based)
  allPdfBuffers,
  pc,            \* idle | received | walk | extract | merging | compressing
                 \* | done
  response,
  \* extractPdfsFromZip
  zipBuffer,     \* the argument of a call made on its own
  zlog,          \* the calls made: the bytes given, what came out
  \* reencodeImages
  reencArg,      \* the document given: whether it loads, its object table
  rquality,      \* the JPEG quality given
  registry,      \* the object table of the loaded document
  objIdx,        \* the loop over the table (1-based)
  rpc,           \* idle | start | loop | returned | threw
  rlog,          \* per object visited: what the loop body did
  reencodeResult,
  \* repairPdf / ghostscriptCompress: one invocation after another
  tool,          \* "repairPdf" (src/lib/merge.ts) or "ghostscriptCompress"
                 \* (src/unnamed/part_002)
  spc,           \* idle | ready | write | exec | read | finally | returned
                 \* | threw
  tmpDir,        \* the scratch directory of the invocation (0: none)
  onDisk,        \* the scratch directories that exist
  created,       \* how many scratch directories have been created
  pending,       \* the completion the try block ended with
  rmLog,         \* the removals attempted: the directory, whether it worked
  scratchResult, \* how the invocation ended
  \* the page: Home (src/unnamed/part_001) and its PDFFileList
  filesProp,     \* Home's files state, the files prop of PDFFileList
  changes,       \* how often the user has added or removed a file
  runs,          \* the loadFiles runs started and not yet finished
  fileInfos,     \* the rows PDFFileList shows
  loading,
  listError,
  status,        \* idle | uploading | processing | done | error
  uploadProgress,
  errorMessage,
  downloadUrl,   \* an object URL (0: "")
  originalSize,
  finalSize,
  xhrRef,        \* the request xhrRef.current holds (0: null)
  requests,      \* every XMLHttpRequest made: how far it is, what came back
  objectUrls     \* the object URLs created and not revoked

mergeVars == <<buffers, i, buf, merged, mpc, mlog, mergeResult, mergeCalls>>
compVars ==
  <<variant, compressArg, inputBuffer, pass, clog, cpc, compressResult,
    compressCalls>>
postVars == <<route, formData, fileIdx, allPdfBuffers, pc, response>>

unzipVars == <<zipBuffer, zlog>>

imgVars ==
  <<reencArg, rquality, registry, objIdx, rpc, rlog, reencodeResult>>
fsVars ==
  <<tool, spc, tmpDir, onDisk, created, pending, rmLog, scratchResult>>
listVars == <<filesProp, changes, runs, fileInfos, loading, listError>>
homeVars ==
  <<status, uploadProgress, errorMessage, downloadUrl, originalSize,
    finalSize, xhrRef, requests, objectUrls>>
pageVars == <<listVars, homeVars>>
toolVars == <<imgVars, fsVars, pageVars>>

vars == <<mergeVars, compVars, postVars, unzipVars, toolVars>>

NoBytes == PdfBytes("none", 0, FALSE, 0)

\* a Buffer a stage produced: who made it (merged: mergePdfs; arg: the
\* caller of compressPdf; pass: reencodeImages or ghostscriptCompress in
\* pass n of the ladder) and its length.  Two buffers hold the same bytes
\* when the records are equal.
Buffer(src, n, len) == [src |-> src, n |-> n, len |-> len]
NoBuffer == Buffer("none", 0, 0)

\* how a call ended: the value it returned or the error it threw
NoResult == [kind |-> "none", buffer |-> NoBuffer, error |-> ""]
Returned(b) == [kind |-> "buffer", buffer |-> b, error |-> ""]
Thrown(msg) == [kind |-> "error", buffer |-> NoBuffer, error |-> msg]

(***************************************************************************)
(* mergePdfs (src/lib/merge.ts 46-78).                                     *)
(***************************************************************************)
\* the pages copyPages returns for the donor, in the donor's page order
DonorPages(idx, donor) ==
  [k \in 1..donor.pages |-> [blob |-> idx, id |-> donor.id, page |-> k]]

\* a document whose new pages go in front
AddPages_front(doc, pages) == pages \o doc

\* a document that takes every page twice
AddPages_twice(doc, pages) == doc \o pages \o pages

\* for (const page of pages) merged.addPage(page)
AddPages(doc, pages) == doc \o pages

\* one record per PDFDocument.load / repairPdf call: the blob's index, the
\* call, the bytes it was given, whether it succeeded
LogEntry(idx, op, bytes, ok) ==
  [blob |-> idx, op |-> op, bytes |-> bytes, ok |-> ok]

\* a loop that opens every blob
IsSkipped_never(b) == FALSE

\* line 50: if (buffers[i].length === 0) continue
IsSkipped(b) == b.len = 0

mergePdfs_skip ==
  /\ mpc = "loop"
  /\ i <= Len(buffers)
  /\ IsSkipped(buffers[i])
  /\ i' = i + 1
  /\ UNCHANGED <<buffers, buf, merged, mpc, mlog, mergeResult, mergeCalls>>
  /\ UNCHANGED <<compVars, postVars>>
  /\ UNCHANGED <<unzipVars, toolVars>>

\* lines 52-58: the try block runs to its end.  PDFDocument.load and
\* copyPages are where a malformed donor throws; addPage of a page that
\* copyPages made for this document does not throw, so the block either
\* adds every page of the donor or none.
mergePdfs_try ==
  /\ mpc = "loop"
  /\ i <= Len(buffers)
  /\ ~IsSkipped(buffers[i])
  /\ buffers[i].parses
  /\ buf' = buffers[i]
  /\ merged' = AddPages(merged, DonorPages(i, buffers[i]))
  /\ mlog' = Append(mlog, LogEntry(i, "load", buffers[i], TRUE))
  /\ i' = i + 1
  /\ UNCHANGED <<buffers, mpc, mergeResult, mergeCalls>>
  /\ UNCHANGED <<compVars, postVars>>
  /\ UNCHANGED <<unzipVars, toolVars>>

\* lines 52-59: the try block throws, control enters the catch
mergePdfs_catch ==
  /\ mpc = "loop"
  /\ i <= Len(buffers)
  /\ ~IsSkipped(buffers[i])
  /\ ~buffers[i].parses
  /\ buf' = buffers[i]
  /\ mlog' = Append(mlog, LogEntry(i, "load", buffers[i], FALSE))
  /\ mpc' = "repair"
  /\ UNCHANGED <<buffers, i, merged, mergeResult, mergeCalls>>
  /\ UNCHANGED <<compVars, postVars>>
  /\ UNCHANGED <<unzipVars, toolVars>>

\* repairPdf (lines 19-44): Ghostscript rewrites the bytes; what it writes
\* may or may not open.  It throws when the tool fails, times out, or the
\* files cannot be written or read.
RepairedBytes(b) ==
  {[PdfBytes(b.id, 1, ok, b.pages) EXCEPT !.rev = 1] : ok \in BOOLEAN}

\* line 62, repairPdf returns: buf = await repairPdf(buf)
mergePdfs_repaired ==
  /\ mpc = "repair"
  /\ \E r \in RepairedBytes(buf) : buf' = r
  /\ mlog' = Append(mlog, LogEntry(i, "repair", buf, TRUE))
  /\ mpc' = "retry"
  /\ UNCHANGED <<buffers, i, merged, mergeResult, mergeCalls>>
  /\ UNCHANGED <<compVars, postVars>>
  /\ UNCHANGED <<unzipVars, toolVars>>

\* line 62, repairPdf throws: nothing in mergePdfs catches it
mergePdfs_repairThrows ==
  /\ mpc = "repair"
  /\ mlog' = Append(mlog, LogEntry(i, "repair", buf, FALSE))
  /\ mpc' = "threw"
  /\ mergeResult' = Thrown("repair failed")
  /\ UNCHANGED <<buffers, i, buf, merged, mergeCalls>>
  /\ UNCHANGED <<compVars, postVars>>
  /\ UNCHANGED <<unzipVars, toolVars>>

\* a retry whose failure is swallowed: the loop goes on to the next blob
mergePdfs_retry_skip ==
  /\ mpc = "retry"
  /\ mlog' = Append(mlog, LogEntry(i, "retry", buf, buf.parses))
  /\ merged' = IF buf.parses THEN AddPages(merged, DonorPages(i, buf))
                ELSE merged
  /\ i' = i + 1
  /\ mpc' = "loop"
  /\ UNCHANGED <<buffers, buf, mergeResult, mergeCalls>>
  /\ UNCHANGED <<compVars, postVars>>
  /\ UNCHANGED <<unzipVars, toolVars>>

\* lines 63-68: load, copyPages and addPage on the repaired bytes, outside
\* any try: a throw leaves mergePdfs
mergePdfs_retry ==
  /\ mpc = "retry"
  /\ mlog' = Append(mlog, LogEntry(i, "retry", buf, buf.parses))
  /\ IF buf.parses
     THEN /\ merged' = AddPages(merged, DonorPages(i, buf))
          /\ i' = i + 1
          /\ mpc' = "loop"
          /\ UNCHANGED mergeResult
     ELSE /\ mpc' = "threw"
          /\ mergeResult' = Thrown("Failed to parse PDF document")
          /\ UNCHANGED <<merged, i>>
  /\ UNCHANGED <<buffers, buf, mergeCalls>>
  /\ UNCHANGED <<compVars, postVars>>
  /\ UNCHANGED <<unzipVars, toolVars>>

\* merged.save(): one unit per page
SavedLen(doc) == Len(doc)

NoValidPages == "No valid PDF pages could be merged"

\* lines 72-77: after the loop
mergePdfs_finish ==
  /\ mpc = "loop"
  /\ i > Len(buffers)
  /\ IF Len(merged) = 0
     THEN /\ mpc' = "threw"
          /\ mergeResult' = Thrown(NoValidPages)
     ELSE /\ mpc' = "returned"
          /\ mergeResult' = Returned(Buffer("merged", 0, SavedLen(merged)))
  /\ UNCHANGED <<buffers, i, buf, merged, mlog, mergeCalls>>
  /\ UNCHANGED <<compVars, postVars>>
  /\ UNCHANGED <<unzipVars, toolVars>>

mergePdfs ==
  \/ mergePdfs_skip
  \/ mergePdfs_try
  \/ mergePdfs_catch
  \/ mergePdfs_repaired
  \/ mergePdfs_repairThrows
  \/ mergePdfs_retry
  \/ mergePdfs_finish

\* the call: merged = await PDFDocument.create(), i = 0
mergePdfs_call(list) ==
  /\ buffers' = list
  /\ i' = 1
  /\ buf' = NoBytes
  /\ merged' = <<>>
  /\ mpc' = "loop"
  /\ mlog' = <<>>
  /\ mergeResult' = NoResult
  /\ mergeCalls' = mergeCalls + 1

MergeIdle ==
  /\ buffers = <<>>
  /\ i = 0
  /\ buf = NoBytes
  /\ merged = <<>>
  /\ mpc = "idle"
  /\ mlog = <<>>
  /\ mergeResult = NoResult
  /\ mergeCalls = 0

(***************************************************************************)
(* compressPdf: src/lib/compress.ts 7-34 (variant "sharp", every pass      *)
(* re-encodes the original input) and src/unnamed/part_002 32-72 (variant  *)
(* "gs", every pass works on the output of the last pass that succeeded).  *)
(***************************************************************************)
\* src/lib/compress.ts line 5
QUALITY_PASSES == <<80, 60, 40, 20>>

\* src/unnamed/part_002 lines 24-30
GS_PASSES ==
  <<[resolution |-> "ebook", imageQuality |-> 80],
    [resolution |-> "ebook", imageQuality |-> 60],
    [resolution |-> "ebook", imageQuality |-> 40],
    [resolution |-> "screen", imageQuality |-> 40],
    [resolution |-> "screen", imageQuality |-> 20]>>

\* a short-circuit that lets go of a buffer exactly at the budget
ShortCircuits_strict(b) == b.len < MAX_OUTPUT_SIZE

\* compress.ts line 8: inputBuffer.length <= MAX_OUTPUT_SIZE
ShortCircuits(b) == b.len <= MAX_OUTPUT_SIZE

\* a ladder that never stops early
MeetsBudget_never(b) == FALSE

\* compress.ts line 20, part_002 line 52: the pass's output is within budget
MeetsBudget(b) == b.len <= MAX_OUTPUT_SIZE

\* What one pass can do: reencodeImages / ghostscriptCompress throws (the
\* document cannot be loaded or saved, the tool fails or times out), or
\* returns a freshly written document of some length.
PassOutcomes(n) ==
  {[ok |-> FALSE, buffer |-> NoBuffer]}
    \cup {[ok |-> TRUE, buffer |-> Buffer("pass", n, len)] : len \in 1..MaxLen}

\* one record per pass attempted
Attempt(n, resolution, quality, input, out) ==
  [pass |-> n, resolution |-> resolution, quality |-> quality,
   input |-> input, ok |-> out.ok, buffer |-> out.buffer]

\* the call
compressPdf_call(b) ==
  /\ compressArg' = b
  /\ inputBuffer' = b
  /\ pass' = 1
  /\ clog' = <<>>
  /\ cpc' = "start"
  /\ compressResult' = NoResult
  /\ compressCalls' = compressCalls + 1
  /\ UNCHANGED variant

CompIdle ==
  /\ compressArg = NoBuffer
  /\ inputBuffer = NoBuffer
  /\ pass = 0
  /\ clog = <<>>
  /\ cpc = "idle"
  /\ compressResult = NoResult
  /\ compressCalls = 0

\* compress.ts lines 8-10
compressPdf_shortCircuit ==
  /\ cpc = "start"
  /\ variant = "sharp"
  /\ ShortCircuits(inputBuffer)
  /\ cpc' = "returned"
  /\ compressResult' = Returned(inputBuffer)
  /\ UNCHANGED <<variant, compressArg, inputBuffer, pass, clog, compressCalls>>
  /\ UNCHANGED <<mergeVars, postVars>>
  /\ UNCHANGED <<unzipVars, toolVars>>

\* compress.ts line 12, part_002 line 40: the loop is entered
compressPdf_enter ==
  /\ cpc = "start"
  /\ variant = "gs" \/ ~ShortCircuits(inputBuffer)
  /\ cpc' = "loop"
  /\ UNCHANGED <<variant, compressArg, inputBuffer, pass, clog,
                 compressResult, compressCalls>>
  /\ UNCHANGED <<mergeVars, postVars>>
  /\ UNCHANGED <<unzipVars, toolVars>>

\* compress.ts lines 12-26: one pass of the ladder, its throw caught
compressPdf_pass ==
  /\ cpc = "loop"
  /\ variant = "sharp"
  /\ pass <= Len(QUALITY_PASSES)
  /\ \E out \in PassOutcomes(pass) :
       /\ clog' = Append(clog,
                    Attempt(pass, "", QUALITY_PASSES[pass], inputBuffer, out))
       /\ IF out.ok /\ MeetsBudget(out.buffer)
          THEN /\ cpc' = "returned"
               /\ compressResult' = Returned(out.buffer)
               /\ UNCHANGED pass
          ELSE /\ pass' = pass + 1
               /\ UNCHANGED <<cpc, compressResult>>
  /\ UNCHANGED <<variant, compressArg, inputBuffer, compressCalls>>
  /\ UNCHANGED <<mergeVars, postVars>>
  /\ UNCHANGED <<unzipVars, toolVars>>

\* reencodeImages is a function of its arguments: run again on an input and
\* a quality the ladder has tried, it ends as it did then
reencodeImages_again(log, input, quality) ==
  LET k == CHOOSE k \in 1..Len(log) :
             log[k].input = input /\ log[k].quality = quality
  IN [ok |-> log[k].ok, buffer |-> log[k].buffer]

\* a fallback that does not run the last quality again
Fallback_input(log, input) == Returned(input)

\* a fallback without its catch
Fallback_uncaught(log, input) ==
  LET again ==
        reencodeImages_again(log, input, QUALITY_PASSES[Len(QUALITY_PASSES)])
  IN IF again.ok THEN Returned(again.buffer) ELSE Thrown("reencode failed")

\* compress.ts lines 29-33: the last quality once more; the input itself
\* when that throws
Fallback(log, input) ==
  LET again ==
        reencodeImages_again(log, input, QUALITY_PASSES[Len(QUALITY_PASSES)])
  IN IF again.ok THEN Returned(again.buffer) ELSE Returned(input)

compressPdf_fallback ==
  /\ cpc = "loop"
  /\ variant = "sharp"
  /\ pass > Len(QUALITY_PASSES)
  /\ compressResult' = Fallback(clog, inputBuffer)
  /\ cpc' = IF Fallback(clog, inputBuffer).kind = "error"
            THEN "threw" ELSE "returned"
  /\ UNCHANGED <<variant, compressArg, inputBuffer, pass, clog, compressCalls>>
  /\ UNCHANGED <<mergeVars, postVars>>
  /\ UNCHANGED <<unzipVars, toolVars>>

\* a ladder that loses its input when a pass fails
NextInput_lost(input, out) == IF out.ok THEN out.buffer ELSE NoBuffer

\* part_002 line 60: inputBuffer = result
NextInput(input, out) == IF out.ok THEN out.buffer ELSE input

\* part_002 lines 40-67: one pass of the ladder, its throw caught
compressPdf_gsPass ==
  /\ cpc = "loop"
  /\ variant = "gs"
  /\ pass <= Len(GS_PASSES)
  /\ \E out \in PassOutcomes(pass) :
       /\ clog' = Append(clog,
                    Attempt(pass, GS_PASSES[pass].resolution,
                            GS_PASSES[pass].imageQuality, inputBuffer, out))
       /\ IF out.ok /\ MeetsBudget(out.buffer)
          THEN /\ cpc' = "returned"
               /\ compressResult' = Returned(out.buffer)
               /\ UNCHANGED <<pass, inputBuffer>>
          ELSE /\ pass' = pass + 1
               /\ inputBuffer' = NextInput(inputBuffer, out)
               /\ UNCHANGED <<cpc, compressResult>>
  /\ UNCHANGED <<variant, compressArg, compressCalls>>
  /\ UNCHANGED <<mergeVars, postVars>>
  /\ UNCHANGED <<unzipVars, toolVars>>

\* part_002 lines 69-71
compressPdf_gsFinal ==
  /\ cpc = "loop"
  /\ variant = "gs"
  /\ pass > Len(GS_PASSES)
  /\ cpc' = "returned"
  /\ compressResult' = Returned(inputBuffer)
  /\ UNCHANGED <<variant, compressArg, inputBuffer, pass, clog, compressCalls>>
  /\ UNCHANGED <<mergeVars, postVars>>
  /\ UNCHANGED <<unzipVars, toolVars>>

compressPdf ==
  \/ compressPdf_shortCircuit
  \/ compressPdf_enter
  \/ compressPdf_pass
  \/ compressPdf_fallback
  \/ compressPdf_gsPass
  \/ compressPdf_gsFinal

(***************************************************************************)
(* reencodeImages (src/lib/compress.ts 36-130).  An object of the table:   *)
(*   isStream          obj instanceof PdfStream                            *)
(*   subtype           /Subtype                                            *)
(*   width, height     /Width, /Height as getNumericValue reads them (0:   *)
(*                     absent or not a number)                             *)
(*   filter            /Filter                                             *)
(*   bitsPerComponent  /BitsPerComponent (8 when absent)                   *)
(*   colorSpace        /ColorSpace                                         *)
(*   decodeParms       the dictionary has /DecodeParms                     *)
(*   data              the stream's encoded data                           *)
(*   decodes           getDecodedData returns (it throws otherwise)        *)
(*   decodedLen        the length of what it returns                       *)
(* An update starts by copying the JPEG into a new array (lines 83, 115),   *)
(* which may throw; setData, set and delete then assign to the object in   *)
(* memory and do not throw.                                                *)
(***************************************************************************)
RawImage ==
  [id |-> "rgb", isStream |-> TRUE, subtype |-> "Image", width |-> 2,
   height |-> 2, filter |-> "FlateDecode", bitsPerComponent |-> 8,
   colorSpace |-> "DeviceRGB", decodeParms |-> TRUE,
   data |-> Buffer("stream", 0, 3), decodes |-> TRUE, decodedLen |-> 12]

\* lines 53, 59: no stream; a stream that is no image
ObjDict == [RawImage EXCEPT !.id = "dict", !.isStream = FALSE, !.subtype = ""]
ObjFont == [RawImage EXCEPT !.id = "font", !.subtype = "Font"]
\* line 67: an image one pixel wide
ObjTiny == [RawImage EXCEPT !.id = "tiny", !.width = 1, !.decodedLen = 6]
\* line 73: a JPEG
ObjJpeg ==
  [RawImage EXCEPT !.id = "jpeg", !.filter = "DCTDecode",
                   !.decodeParms = FALSE, !.data = Buffer("stream", 0, 2)]
\* line 87: a stream whose filter cannot be undone
ObjUndecodable == [RawImage EXCEPT !.id = "bad", !.decodes = FALSE]
\* line 92
ObjDeep == [RawImage EXCEPT !.id = "deep", !.bitsPerComponent = 16,
                            !.decodedLen = 24]
\* lines 97-103: one, four, three channels
ObjGray == [RawImage EXCEPT !.id = "gray", !.colorSpace = "DeviceGray",
                            !.decodedLen = 4]
ObjCmyk == [RawImage EXCEPT !.id = "cmyk", !.colorSpace = "DeviceCMYK",
                            !.decodedLen = 16]
\* line 106: fewer bytes than width * height * channels
ObjShort == [RawImage EXCEPT !.id = "short", !.decodedLen = 8]
\* more bytes than width * height * channels: four components per pixel
\* under a colour space whose name holds neither "Gray" nor "CMYK"
ObjLong == [RawImage EXCEPT !.id = "long", !.colorSpace = "ICCBased",
                            !.decodedLen = 16]

\* a JPEG whose dictionary carries decode parameters (/ColorTransform)
ObjJpegParms == [ObjJpeg EXCEPT !.id = "jpegdp", !.decodeParms = TRUE,
                                !.data = Buffer("stream", 0, 3)]

ObjectCatalogue ==
  {RawImage, ObjDict, ObjFont, ObjTiny, ObjJpeg, ObjJpegParms, ObjUndecodable,
   ObjDeep, ObjGray, ObjCmyk, ObjShort, ObjLong}

\* a loop that works on every object
IsImage_any(obj) == TRUE

\* lines 53-67: the object is an image the loop works on
IsImage(obj) ==
  /\ obj.isStream
  /\ obj.subtype = "Image"
  /\ obj.width >= 2
  /\ obj.height >= 2

\* line 73
IsDct(filterName) == filterName = "DCTDecode"

\* lines 96-103
Channels(colorSpace) ==
  IF colorSpace \in {"DeviceGray", "CalGray"} THEN 1
  ELSE IF colorSpace = "DeviceCMYK" THEN 4
  ELSE 3

\* line 105
ExpectedLen(obj) == obj.width * obj.height * Channels(obj.colorSpace)

\* sharp(...).jpeg({quality}).toBuffer(): a JPEG of some length, or a throw
SharpOutcomes(q) ==
  {[ok |-> FALSE, buffer |-> NoBuffer]}
    \cup {[ok |-> TRUE, buffer |-> Buffer("jpeg", q, len)] :
            len \in 1..MaxEncoded}

\* a JPEG branch that also replaces on equal length
JpegStep_notLonger(stream, out, copied) ==
  IF ~out.ok THEN "encodeError"
  ELSE IF out.buffer.len > stream.data.len THEN "kept"
  ELSE IF ~copied THEN "updateError"
  ELSE "replaced"

\* lines 75-84 and the catch: what the body does with a JPEG
JpegStep(stream, out, copied) ==
  IF ~out.ok THEN "encodeError"
  ELSE IF out.buffer.len >= stream.data.len THEN "kept"
  ELSE IF ~copied THEN "updateError"
  ELSE "replaced"

\* lines 87-120 and the catch: what the body does with any other image
RawStep(stream, out, copied) ==
  IF ~stream.decodes THEN "decodeError"
  ELSE IF stream.decodedLen = 0 THEN "continue"
  ELSE IF stream.bitsPerComponent # 8 THEN "continue"
  ELSE IF stream.decodedLen < ExpectedLen(stream) THEN "continue"
  ELSE IF ~out.ok THEN "encodeError"
  ELSE IF out.buffer.len >= stream.decodedLen THEN "kept"
  ELSE IF ~copied THEN "updateError"
  ELSE "replaced"

\* line 83; lines 115-119
SetJpeg(stream, jpeg) ==
  IF IsDct(stream.filter) THEN [stream EXCEPT !.data = jpeg]
  ELSE [stream EXCEPT !.data = jpeg, !.filter = "DCTDecode",
                      !.decodeParms = FALSE]

\* a body whose failed encoding or update leaves the stream without its data
AfterStep_torn(table, idx, did, jpeg) ==
  IF did = "replaced" THEN [table EXCEPT ![idx] = SetJpeg(table[idx], jpeg)]
  ELSE IF did \in {"encodeError", "updateError"}
  THEN [table EXCEPT ![idx].data = NoBuffer]
  ELSE table

\* the table after the body ran on object idx
AfterStep(table, idx, did, jpeg) ==
  IF did = "replaced" THEN [table EXCEPT ![idx] = SetJpeg(table[idx], jpeg)]
  ELSE table

\* one record per object visited: what the body did and, when the encoder
\* returned, the length of its JPEG
Visit(idx, did, out) ==
  [obj |-> idx, did |-> did,
   encoded |-> IF did \in {"kept", "updateError", "replaced"}
               THEN out.buffer.len ELSE 0]

\* line 40: PDF.load
reencodeImages_load ==
  /\ rpc = "start"
  /\ IF reencArg.parses
     THEN /\ registry' = reencArg.objects
          /\ objIdx' = 1
          /\ rpc' = "loop"
          /\ UNCHANGED reencodeResult
     ELSE /\ rpc' = "threw"
          /\ reencodeResult' = Thrown("Failed to load PDF")
          /\ UNCHANGED <<registry, objIdx>>
  /\ UNCHANGED <<reencArg, rquality, rlog>>
  /\ UNCHANGED <<mergeVars, compVars, postVars, unzipVars, fsVars, pageVars>>

\* lines 53-67: continue
reencodeImages_notImage ==
  /\ rpc = "loop"
  /\ objIdx <= Len(registry)
  /\ ~IsImage(registry[objIdx])
  /\ rlog' = Append(rlog, Visit(objIdx, "skipped", NoResult))
  /\ objIdx' = objIdx + 1
  /\ UNCHANGED <<reencArg, rquality, registry, rpc, reencodeResult>>
  /\ UNCHANGED <<mergeVars, compVars, postVars, unzipVars, fsVars, pageVars>>

\* lines 69-84, 122-125
reencodeImages_jpeg ==
  /\ rpc = "loop"
  /\ objIdx <= Len(registry)
  /\ IsImage(registry[objIdx])
  /\ IsDct(registry[objIdx].filter)
  /\ \E out \in SharpOutcomes(rquality), copied \in BOOLEAN :
       LET did == JpegStep(registry[objIdx], out, copied)
       IN /\ registry' = AfterStep(registry, objIdx, did, out.buffer)
          /\ rlog' = Append(rlog, Visit(objIdx, did, out))
  /\ objIdx' = objIdx + 1
  /\ UNCHANGED <<reencArg, rquality, rpc, reencodeResult>>
  /\ UNCHANGED <<mergeVars, compVars, postVars, unzipVars, fsVars, pageVars>>

\* lines 69-72, 85-125
reencodeImages_raw ==
  /\ rpc = "loop"
  /\ objIdx <= Len(registry)
  /\ IsImage(registry[objIdx])
  /\ ~IsDct(registry[objIdx].filter)
  /\ \E out \in SharpOutcomes(rquality), copied \in BOOLEAN :
       LET did == RawStep(registry[objIdx], out, copied)
       IN /\ registry' = AfterStep(registry, objIdx, did, out.buffer)
          /\ rlog' = Append(rlog, Visit(objIdx, did, out))
  /\ objIdx' = objIdx + 1
  /\ UNCHANGED <<reencArg, rquality, rpc, reencodeResult>>
  /\ UNCHANGED <<mergeVars, compVars, postVars, unzipVars, fsVars, pageVars>>

\* the saved document: one unit and the data of every stream
RECURSIVE DocLen(_)
DocLen(table) ==
  IF table = <<>> THEN 1
  ELSE (IF table[1].isStream THEN table[1].data.len ELSE 0)
         + DocLen(Tail(table))

\* lines 128-129: doc.save()
reencodeImages_save ==
  /\ rpc = "loop"
  /\ objIdx > Len(registry)
  /\ rpc' = "returned"
  /\ reencodeResult' = Returned(Buffer("reencoded", rquality, DocLen(registry)))
  /\ UNCHANGED <<reencArg, rquality, registry, objIdx, rlog>>
  /\ UNCHANGED <<mergeVars, compVars, postVars, unzipVars, fsVars, pageVars>>

reencodeImages ==
  \/ reencodeImages_load
  \/ reencodeImages_notImage
  \/ reencodeImages_jpeg
  \/ reencodeImages_raw
  \/ reencodeImages_save

(***************************************************************************)
(* repairPdf (src/lib/merge.ts 19-44) and ghostscriptCompress              *)
(* (src/unnamed/part_002 74-113).  Both create a scratch directory, write  *)
(* the input into it, run Ghostscript, read the output and remove the      *)
(* directory in a finally block.  tool is the function running, tmpDir the *)
(* directory of the invocation (0: none), onDisk the directories that      *)
(* exist, pending the completion the try block ended with, rmLog the       *)
(* removals attempted.                                                     *)
(***************************************************************************)
Tools == {"repairPdf", "ghostscriptCompress"}

\* merge.ts 20; part_002 79: a directory under a fresh name, or a throw
\* before the try block is entered
mkdtemp ==
  /\ spc = "mkdtemp"
  /\ \/ /\ created' = created + 1
        /\ tmpDir' = created + 1
        /\ onDisk' = onDisk \cup {created + 1}
        /\ spc' = "writeFile"
        /\ UNCHANGED scratchResult
     \/ /\ spc' = "threw"
        /\ scratchResult' = Thrown("mkdtemp")
        /\ UNCHANGED <<created, tmpDir, onDisk>>
  /\ UNCHANGED <<tool, pending, rmLog>>
  /\ UNCHANGED <<mergeVars, compVars, postVars, unzipVars, imgVars, pageVars>>

\* merge.ts 25; part_002 84
writeFile ==
  /\ spc = "writeFile"
  /\ \/ /\ spc' = "execFile"
        /\ UNCHANGED pending
     \/ /\ spc' = "finally"
        /\ pending' = Thrown("writeFile")
  /\ UNCHANGED <<tool, tmpDir, onDisk, created, rmLog, scratchResult>>
  /\ UNCHANGED <<mergeVars, compVars, postVars, unzipVars, imgVars, pageVars>>

\* merge.ts 26-39; part_002 107: Ghostscript exits with 0, exits with an
\* error, or is killed when the timeout expires
execFileAsync ==
  /\ spc = "execFile"
  /\ \/ /\ spc' = "readFile"
        /\ UNCHANGED pending
     \/ /\ spc' = "finally"
        /\ pending' \in {Thrown("Command failed"), Thrown("timeout")}
  /\ UNCHANGED <<tool, tmpDir, onDisk, created, rmLog, scratchResult>>
  /\ UNCHANGED <<mergeVars, compVars, postVars, unzipVars, imgVars, pageVars>>

\* merge.ts 40; part_002 109
readFile ==
  /\ spc = "readFile"
  /\ pending' \in {Thrown("readFile")}
                    \cup {Returned(Buffer(tool, tmpDir, len)) : len \in 0..MaxLen}
  /\ spc' = "finally"
  /\ UNCHANGED <<tool, tmpDir, onDisk, created, rmLog, scratchResult>>
  /\ UNCHANGED <<mergeVars, compVars, postVars, unzipVars, imgVars, pageVars>>

\* merge.ts 41-43; part_002 110-112: the removal is awaited and its failure
\* swallowed, then the try block's completion leaves the function
rm ==
  /\ spc = "finally"
  /\ \E removed \in BOOLEAN :
       /\ onDisk' = IF removed THEN onDisk \ {tmpDir} ELSE onDisk
       /\ rmLog' = Append(rmLog, [dir |-> tmpDir, removed |-> removed])
  /\ scratchResult' = pending
  /\ spc' = IF pending.kind = "buffer" THEN "returned" ELSE "threw"
  /\ UNCHANGED <<tool, tmpDir, created, pending>>
  /\ UNCHANGED <<mergeVars, compVars, postVars, unzipVars, imgVars, pageVars>>

\* the next invocation of either function
invoke ==
  /\ spc \in {"returned", "threw"}
  /\ created < MaxCalls
  /\ tool' \in Tools
  /\ spc' = "mkdtemp"
  /\ tmpDir' = 0
  /\ pending' = NoResult
  /\ scratchResult' = NoResult
  /\ UNCHANGED <<onDisk, created, rmLog>>
  /\ UNCHANGED <<mergeVars, compVars, postVars, unzipVars, imgVars, pageVars>>

(***************************************************************************)
(* The request: files and form data.                                       *)
(***************************************************************************)
File(name, bytes) == [name |-> name, bytes |-> bytes]
\* formData.get of a field the request does not hold: null
NoFile == File(<<>>, NoBytes)

Part(field, file) == [field |-> field, file |-> file]

\* FormData.getAll(name): the files of the parts with that name, in order
getAll(fd, name) ==
  LET parts == SelectSeq(fd, LAMBDA p : p.field = name)
  IN [k \in 1..Len(parts) |-> parts[k].file]

\* FormData.get(name): the first of them, or null
get(fd, name) ==
  IF getAll(fd, name) = <<>> THEN NoFile ELSE getAll(fd, name)[1]

DotPdf == <<".", "p", "d", "f">>
DotZip == <<".", "z", "i", "p">>

FileA == File(<<"A", ".", "p", "d", "f">>, BlobA)
FileBad == File(<<"m", ".", "P", "D", "F">>, BlobBad)
\* Z.zip{b.pdf, a.pdf}
FileZ ==
  File(<<"Z", ".", "z", "i", "p">>,
       ZipBytes("Z", <<ZipEntry(<<"b", ".", "p", "d", "f">>, Blob_b),
                       ZipEntry(<<"a", ".", "p", "d", "f">>, Blob_a)>>))
\* an archive that holds no PDF: a resource fork and a text file
FileNoPdfZip ==
  File(<<"y", ".", "z", "i", "p">>,
       ZipBytes("Y",
         <<ZipEntry(<<"_", "_", "M", "A", "C", "O", "S", "X", "/",
                      "a", ".", "p", "d", "f">>, Blob_a),
           ZipEntry(<<"n", ".", "t", "x", "t">>, JunkBytes("n"))>>))
\* a .zip that is no archive
FileBrokenZip == File(<<"x", ".", "z", "i", "p">>, JunkBytes("X"))
FileTxt == File(<<"n", ".", "t", "x", "t">>, JunkBytes("N"))
\* a PDF of no bytes
FileEmpty == File(<<"e", ".", "p", "d", "f">>, BlobEmpty)

FileCatalogue ==
  {FileA, FileBad, FileZ, FileNoPdfZip, FileBrokenZip, FileTxt, FileEmpty}

\* the page of part_001 appends every chosen file as "files"
FilesForms ==
  {[k \in 1..Len(fs) |-> Part("files", fs[k])] :
     fs \in SeqsUpTo(FileCatalogue, MaxParts)}

\* the page of part_000 appends pdf, zip1, zip2; any of them may be missing
\* from a request made by another client
OptionalPart(field) ==
  {<<>>} \cup {<<Part(field, f)>> : f \in FileCatalogue}

ThreeForms ==
  {a \o b \o c :
     a \in OptionalPart("pdf"), b \in OptionalPart("zip1"),
     c \in OptionalPart("zip2")}

(***************************************************************************)
(* The page.  PDFFileList (src/components/DownloadButton.tsx 54-154): an   *)
(* effect on the files prop starts loadFiles, which awaits the files'      *)
(* bytes and then sets the rows; nothing cancels a run whose prop has been *)
(* replaced.                                                               *)
(***************************************************************************)
\* P.zip{page2.pdf, page10.pdf}
FilePages ==
  File(<<"P", ".", "z", "i", "p">>,
       ZipBytes("P",
         <<ZipEntry(<<"p", "a", "g", "e", "2", ".", "p", "d", "f">>, Blob_a),
           ZipEntry(<<"p", "a", "g", "e", "1", "0", ".", "p", "d", "f">>,
                    Blob_b)>>))

\* the files the user may choose
ListCatalogue == {FileA, FilePages}

\* lines 96-153: the effect runs after the render that changed the prop.
\* Its synchronous part: an empty prop clears the rows; any other starts a
\* run that holds the prop it was started with.
PDFFileList_effect(prop) ==
  IF prop = <<>>
  THEN /\ fileInfos' = <<>>
       /\ UNCHANGED <<runs, loading, listError>>
  ELSE /\ runs' = runs \cup {[id |-> changes + 1, files |-> prop]}
       /\ loading' = TRUE
       /\ listError' = ""
       /\ UNCHANGED fileInfos

\* part_001 lines 106-108: setFiles((prev) => [...prev, ...newFiles])
handleFilesSelect ==
  /\ changes < MaxChanges
  /\ \E file \in ListCatalogue :
       /\ filesProp' = filesProp \o <<file>>
       /\ PDFFileList_effect(filesProp \o <<file>>)
  /\ changes' = changes + 1
  /\ UNCHANGED homeVars
  /\ UNCHANGED <<mergeVars, compVars, postVars, unzipVars, imgVars, fsVars>>

\* the list without the element at the index (1-based)
Without(list, index) ==
  SubSeq(list, 1, index - 1) \o SubSeq(list, index + 1, Len(list))

\* part_001 lines 110-112: setFiles((prev) => prev.filter((_, i) => i !== index))
handleRemoveFile ==
  /\ changes < MaxChanges
  /\ \E index \in 1..Len(filesProp) :
       /\ filesProp' = Without(filesProp, index)
       /\ PDFFileList_effect(Without(filesProp, index))
  /\ changes' = changes + 1
  /\ UNCHANGED homeVars
  /\ UNCHANGED <<mergeVars, compVars, postVars, unzipVars, imgVars, fsVars>>

\* lines 104-150: a run reaches its end: setFileInfos(fileList), or
\* setError when reading a file threw; setLoading(false) in both cases
loadFiles_settle ==
  /\ \E run \in runs :
       /\ runs' = runs \ {run}
       /\ IF LoadFails(run.files)
          THEN /\ listError' = "Failed to read files"
               /\ UNCHANGED fileInfos
          ELSE /\ fileInfos' = FileList(run.files)
               /\ UNCHANGED listError
  /\ loading' = FALSE
  /\ UNCHANGED <<filesProp, changes>>
  /\ UNCHANGED homeVars
  /\ UNCHANGED <<mergeVars, compVars, postVars, unzipVars, imgVars, fsVars>>

(***************************************************************************)
(* Home (src/unnamed/part_001 92-208): the merge request and its events.   *)
(* A request is uploading until its body has been sent, then sent until    *)
(* its response has arrived, reading while a FileReader reads the body of  *)
(* a response that is not 200, finished afterwards (ended: the event that  *)
(* finished it).  The page tests the response status against 200 only     *)
(* (line 147): 500 stands for every other status the server answers.      *)
(***************************************************************************)
Finished(reqs) == \A k \in 1..Len(reqs) : reqs[k].phase = "finished"

\* a page whose button stays while a request is under way
CanMerge_whileWorking(st) == TRUE

\* lines 255-263: the button is rendered in status idle or error
CanMerge(st) == st \in {"idle", "error"}

\* lines 113-190.  The record of the request keeps the status the handler
\* was called in and whether every earlier request had finished.
handleMerge ==
  /\ CanMerge(status)
  /\ filesProp # <<>>
  /\ Len(requests) < MaxRequests
  /\ objectUrls' = objectUrls \ {downloadUrl}
  /\ downloadUrl' = 0
  /\ status' = "uploading"
  /\ uploadProgress' = 0
  /\ errorMessage' = ""
  /\ requests' = Append(requests,
                   [phase |-> "uploading", http |-> 0, url |-> 0, ended |-> "",
                    allowed |-> status \in {"idle", "error"},
                    alone |-> Finished(requests)])
  /\ xhrRef' = Len(requests) + 1
  /\ UNCHANGED <<originalSize, finalSize>>
  /\ UNCHANGED listVars
  /\ UNCHANGED <<mergeVars, compVars, postVars, unzipVars, imgVars, fsVars>>

\* lines 136-140: xhr.upload "progress"
xhr_upload_progress ==
  /\ \E k \in 1..Len(requests) : requests[k].phase = "uploading"
  /\ uploadProgress' = 50
  /\ UNCHANGED <<status, errorMessage, downloadUrl, originalSize, finalSize,
                 xhrRef, requests, objectUrls>>
  /\ UNCHANGED listVars
  /\ UNCHANGED <<mergeVars, compVars, postVars, unzipVars, imgVars, fsVars>>

\* lines 142-144: xhr.upload "load"
xhr_upload_load ==
  /\ \E k \in 1..Len(requests) :
       /\ requests[k].phase = "uploading"
       /\ requests' = [requests EXCEPT ![k].phase = "sent"]
  /\ status' = "processing"
  /\ UNCHANGED <<uploadProgress, errorMessage, downloadUrl, originalSize,
                 finalSize, xhrRef, objectUrls>>
  /\ UNCHANGED listVars
  /\ UNCHANGED <<mergeVars, compVars, postVars, unzipVars, imgVars, fsVars>>

\* URL.createObjectURL: a URL no earlier call returned
NewUrl(reqs) ==
  1 + Cardinality({k \in 1..Len(reqs) : reqs[k].url # 0})

\* lines 146-176: xhr "load"
xhr_load ==
  /\ \E k \in 1..Len(requests), http \in {200, 500} :
       /\ requests[k].phase = "sent"
       /\ IF http = 200
          THEN /\ requests' = [requests EXCEPT ![k].phase = "finished",
                                               ![k].ended = "load",
                                               ![k].http = http,
                                               ![k].url = NewUrl(requests)]
               /\ objectUrls' = objectUrls \cup {NewUrl(requests)}
               /\ downloadUrl' = NewUrl(requests)
               /\ originalSize' = 2
               /\ finalSize' = 1
               /\ status' = "done"
          ELSE /\ requests' = [requests EXCEPT ![k].phase = "reading",
                                               ![k].http = http]
               /\ UNCHANGED <<objectUrls, downloadUrl, originalSize,
                              finalSize, status>>
  /\ UNCHANGED <<uploadProgress, errorMessage, xhrRef>>
  /\ UNCHANGED listVars
  /\ UNCHANGED <<mergeVars, compVars, postVars, unzipVars, imgVars, fsVars>>

\* lines 161-169: reader.onload: the body is JSON with an error, JSON
\* without one, or no JSON
reader_onload ==
  /\ \E k \in 1..Len(requests) :
       /\ requests[k].phase = "reading"
       /\ requests' = [requests EXCEPT ![k].phase = "finished",
                                    ![k].ended = "reader.onload"]
  /\ errorMessage' \in {"json.error", "Server error", "Server error (status)"}
  /\ status' = "error"
  /\ UNCHANGED <<uploadProgress, downloadUrl, originalSize, finalSize, xhrRef,
                 objectUrls>>
  /\ UNCHANGED listVars
  /\ UNCHANGED <<mergeVars, compVars, postVars, unzipVars, imgVars, fsVars>>

\* lines 170-173: reader.onerror
reader_onerror ==
  /\ \E k \in 1..Len(requests) :
       /\ requests[k].phase = "reading"
       /\ requests' = [requests EXCEPT ![k].phase = "finished",
                                    ![k].ended = "reader.onerror"]
  /\ errorMessage' = "Server error (status)"
  /\ status' = "error"
  /\ UNCHANGED <<uploadProgress, downloadUrl, originalSize, finalSize, xhrRef,
                 objectUrls>>
  /\ UNCHANGED listVars
  /\ UNCHANGED <<mergeVars, compVars, postVars, unzipVars, imgVars, fsVars>>

\* lines 178-181: xhr "error"
xhr_error ==
  /\ \E k \in 1..Len(requests) :
       /\ requests[k].phase \in {"uploading", "sent"}
       /\ requests' = [requests EXCEPT ![k].phase = "finished",
                                    ![k].ended = "error"]
  /\ errorMessage' = "Network error. Please try again."
  /\ status' = "error"
  /\ UNCHANGED <<uploadProgress, downloadUrl, originalSize, finalSize, xhrRef,
                 objectUrls>>
  /\ UNCHANGED listVars
  /\ UNCHANGED <<mergeVars, compVars, postVars, unzipVars, imgVars, fsVars>>

\* lines 331-338: the button is rendered in status done or error
CanReset(st) == st \in {"done", "error"}

\* xhr.abort(): a request under way ends, and its "abort" event (lines
\* 183-185) is dispatched before abort() returns; a request that is done,
\* or none, is left alone
Aborted(reqs, ref) ==
  IF ref # 0 /\ reqs[ref].phase \in {"uploading", "sent"}
  THEN [reqs EXCEPT ![ref].phase = "finished", ![ref].ended = "abort"]
  ELSE reqs

\* lines 192-208; setFiles([]) makes the effect of PDFFileList run
handleReset ==
  /\ CanReset(status)
  /\ requests' = Aborted(requests, xhrRef)
  /\ xhrRef' = 0
  /\ objectUrls' = objectUrls \ {downloadUrl}
  /\ filesProp' = <<>>
  /\ PDFFileList_effect(<<>>)
  /\ status' = "idle"
  /\ uploadProgress' = 0
  /\ errorMessage' = ""
  /\ downloadUrl' = 0
  /\ originalSize' = 0
  /\ finalSize' = 0
  /\ UNCHANGED changes
  /\ UNCHANGED <<mergeVars, compVars, postVars, unzipVars, imgVars, fsVars>>

(***************************************************************************)
(* POST /api/merge.                                                        *)
(***************************************************************************)
NoResponse ==
  [status |-> 0, error |-> "", body |-> NoBuffer, contentLength |-> 0,
   xOriginalSize |-> 0, xFinalSize |-> 0]

\* NextResponse.json({error}, {status})
JsonError(msg, code) ==
  [status |-> code, error |-> msg, body |-> NoBuffer, contentLength |-> 0,
   xOriginalSize |-> 0, xFinalSize |-> 0]

\* a response that measures the original size after compression
PdfResponse_late(mergedBuffer, compressedBuffer) ==
  [status |-> 200, error |-> "", body |-> compressedBuffer,
   contentLength |-> compressedBuffer.len,
   xOriginalSize |-> compressedBuffer.len,
   xFinalSize |-> compressedBuffer.len]

\* part_001 lines 64-73, part_000 lines 74-83
PdfResponse(mergedBuffer, compressedBuffer) ==
  [status |-> 200, error |-> "", body |-> compressedBuffer,
   contentLength |-> compressedBuffer.len,
   xOriginalSize |-> mergedBuffer.len,
   xFinalSize |-> compressedBuffer.len]

UnzipIdle ==
  /\ zipBuffer = NoBytes
  /\ zlog = <<>>

ImgIdle ==
  /\ reencArg = [parses |-> FALSE, objects |-> <<>>]
  /\ rquality = 0
  /\ registry = <<>>
  /\ objIdx = 0
  /\ rpc = "idle"
  /\ rlog = <<>>
  /\ reencodeResult = NoResult

FsIdle ==
  /\ tool = "none"
  /\ spc = "idle"
  /\ tmpDir = 0
  /\ onDisk = {}
  /\ created = 0
  /\ pending = NoResult
  /\ rmLog = <<>>
  /\ scratchResult = NoResult

ListIdle ==
  /\ filesProp = <<>>
  /\ changes = 0
  /\ runs = {}
  /\ fileInfos = <<>>
  /\ loading = FALSE
  /\ listError = ""

\* part_001 lines 93-101: the initial state of Home
HomeIdle ==
  /\ status = "idle"
  /\ uploadProgress = 0
  /\ errorMessage = ""
  /\ downloadUrl = 0
  /\ originalSize = 0
  /\ finalSize = 0
  /\ xhrRef = 0
  /\ requests = <<>>
  /\ objectUrls = {}

PageIdle == ListIdle /\ HomeIdle

ToolsIdle == ImgIdle /\ FsIdle /\ PageIdle

PostIdle ==
  /\ route = "none"
  /\ formData = <<>>
  /\ fileIdx = 0
  /\ allPdfBuffers = <<>>
  /\ pc = "idle"
  /\ response = NoResponse

\* part_001 line 12
uploadedFiles == getAll(formData, "files")

\* a list that grows at its head
Push_front(list, items) == items \o list

\* Array.prototype.push(...items)
Push(list, items) == list \o items

\* a route without the check for an empty list
NoPdfFound_never(list) == FALSE

\* part_001 line 44: allPdfBuffers.length === 0
NoPdfFound(list) == Len(list) = 0

ZipError == "Invalid or unsupported zip format"

\* part_001 lines 14-19
POST_validate ==
  /\ pc = "received"
  /\ route = "files"
  /\ IF Len(uploadedFiles) = 0
     THEN /\ response' = JsonError("At least one PDF or ZIP file is required", 400)
          /\ pc' = "done"
     ELSE /\ pc' = "walk"
          /\ UNCHANGED response
  /\ UNCHANGED <<route, formData, fileIdx, allPdfBuffers>>
  /\ UNCHANGED <<mergeVars, compVars>>
  /\ UNCHANGED <<unzipVars, toolVars>>

\* part_001 lines 27-29: a part named *.pdf
POST_pushPdf ==
  /\ pc = "walk"
  /\ fileIdx <= Len(uploadedFiles)
  /\ endsWith(toLowerCase(uploadedFiles[fileIdx].name), DotPdf)
  /\ allPdfBuffers' = Push(allPdfBuffers, <<uploadedFiles[fileIdx].bytes>>)
  /\ fileIdx' = fileIdx + 1
  /\ UNCHANGED <<route, formData, pc, response>>
  /\ UNCHANGED <<mergeVars, compVars>>
  /\ UNCHANGED <<unzipVars, toolVars>>

\* part_001 lines 30-33: a part named *.zip; a throw of extractPdfsFromZip
\* is caught at lines 74-78
POST_pushZip ==
  /\ pc = "walk"
  /\ fileIdx <= Len(uploadedFiles)
  /\ ~endsWith(toLowerCase(uploadedFiles[fileIdx].name), DotPdf)
  /\ endsWith(toLowerCase(uploadedFiles[fileIdx].name), DotZip)
  /\ zlog' = Append(zlog, ZipCall(uploadedFiles[fileIdx].bytes))
  /\ UNCHANGED <<zipBuffer, toolVars>>
  /\ IF AdmZipThrows(uploadedFiles[fileIdx].bytes)
     THEN /\ response' = JsonError(ZipError, 500)
          /\ pc' = "done"
          /\ UNCHANGED <<allPdfBuffers, fileIdx>>
     ELSE /\ allPdfBuffers' =
               Push(allPdfBuffers,
                    Buffers(extractPdfsFromZip(uploadedFiles[fileIdx].bytes)))
          /\ fileIdx' = fileIdx + 1
          /\ UNCHANGED <<pc, response>>
  /\ UNCHANGED <<route, formData>>
  /\ UNCHANGED <<mergeVars, compVars>>

\* part_001 lines 34-41
POST_unsupported ==
  /\ pc = "walk"
  /\ fileIdx <= Len(uploadedFiles)
  /\ ~endsWith(toLowerCase(uploadedFiles[fileIdx].name), DotPdf)
  /\ ~endsWith(toLowerCase(uploadedFiles[fileIdx].name), DotZip)
  /\ response' = JsonError("Unsupported file type", 400)
  /\ pc' = "done"
  /\ UNCHANGED <<route, formData, fileIdx, allPdfBuffers>>
  /\ UNCHANGED <<mergeVars, compVars>>
  /\ UNCHANGED <<unzipVars, toolVars>>

\* part_001 lines 44-49
POST_noPdf ==
  /\ pc = "walk"
  /\ fileIdx > Len(uploadedFiles)
  /\ NoPdfFound(allPdfBuffers)
  /\ response' =
       JsonError("No PDF files found in the uploaded files or ZIP archives", 400)
  /\ pc' = "done"
  /\ UNCHANGED <<route, formData, fileIdx, allPdfBuffers>>
  /\ UNCHANGED <<mergeVars, compVars>>
  /\ UNCHANGED <<unzipVars, toolVars>>

\* part_001 line 53: mergePdfs(allPdfBuffers) is called
POST_merge ==
  /\ pc = "walk"
  /\ fileIdx > Len(uploadedFiles)
  /\ ~NoPdfFound(allPdfBuffers)
  /\ mergePdfs_call(allPdfBuffers)
  /\ pc' = "merging"
  /\ UNCHANGED <<route, formData, fileIdx, allPdfBuffers, response>>
  /\ UNCHANGED compVars
  /\ UNCHANGED <<unzipVars, toolVars>>

\* part_000 lines 12-40: presence and names of the three parts
Validate3(pdfFile, zip1File, zip2File) ==
  IF pdfFile = NoFile \/ zip1File = NoFile \/ zip2File = NoFile
  THEN "All three files are required: 1 PDF and 2 ZIP files"
  ELSE IF ~endsWith(toLowerCase(pdfFile.name), DotPdf)
  THEN "First file must be a PDF"
  ELSE IF \/ ~endsWith(toLowerCase(zip1File.name), DotZip)
          \/ ~endsWith(toLowerCase(zip2File.name), DotZip)
  THEN "Second and third files must be ZIP files"
  ELSE ""

POST3_validate ==
  /\ pc = "received"
  /\ route = "three"
  /\ LET msg == Validate3(get(formData, "pdf"), get(formData, "zip1"),
                          get(formData, "zip2"))
     IN IF msg # ""
        THEN /\ response' = JsonError(msg, 400)
             /\ pc' = "done"
        ELSE /\ pc' = "extract"
             /\ UNCHANGED response
  /\ UNCHANGED <<route, formData, fileIdx, allPdfBuffers>>
  /\ UNCHANGED <<mergeVars, compVars>>
  /\ UNCHANGED <<unzipVars, toolVars>>

\* part_000 lines 59-63: the PDF first, then ZIP1's PDFs, then ZIP2's
BuildList3(pdfBuffer, zip1Pdfs, zip2Pdfs) ==
  <<pdfBuffer>> \o Buffers(zip1Pdfs) \o Buffers(zip2Pdfs)

\* part_000 lines 43-66: extraction (a throw is caught at lines 84-88), the
\* check for no PDF in either archive, the list, the call of mergePdfs
POST3_extract ==
  /\ pc = "extract"
  /\ route = "three"
  /\ LET pdfBuffer == get(formData, "pdf").bytes
         zip1Buffer == get(formData, "zip1").bytes
         zip2Buffer == get(formData, "zip2").bytes
     IN /\ zlog' = IF AdmZipThrows(zip1Buffer)
                   THEN zlog \o <<ZipCall(zip1Buffer)>>
                   ELSE zlog \o <<ZipCall(zip1Buffer), ZipCall(zip2Buffer)>>
        /\ UNCHANGED <<zipBuffer, toolVars>>
        /\ IF AdmZipThrows(zip1Buffer) \/ AdmZipThrows(zip2Buffer)
           THEN /\ response' = JsonError(ZipError, 500)
                /\ pc' = "done"
                /\ UNCHANGED <<allPdfBuffers, mergeVars>>
           ELSE IF /\ Len(extractPdfsFromZip(zip1Buffer)) = 0
                   /\ Len(extractPdfsFromZip(zip2Buffer)) = 0
           THEN /\ response' =
                     JsonError("No PDF files found in the ZIP archives", 400)
                /\ pc' = "done"
                /\ UNCHANGED <<allPdfBuffers, mergeVars>>
           ELSE /\ allPdfBuffers' =
                     BuildList3(pdfBuffer, extractPdfsFromZip(zip1Buffer),
                                extractPdfsFromZip(zip2Buffer))
                /\ mergePdfs_call(allPdfBuffers')
                /\ pc' = "merging"
                /\ UNCHANGED response
  /\ UNCHANGED <<route, formData, fileIdx>>
  /\ UNCHANGED compVars

\* mergePdfs rejected: the catch of part_001 lines 74-78, part_000 84-88
POST_mergeThrew ==
  /\ pc = "merging"
  /\ mpc = "threw"
  /\ response' = JsonError(mergeResult.error, 500)
  /\ pc' = "done"
  /\ UNCHANGED <<route, formData, fileIdx, allPdfBuffers>>
  /\ UNCHANGED <<mergeVars, compVars>>
  /\ UNCHANGED <<unzipVars, toolVars>>

\* part_001 lines 53-59, part_000 lines 66-70: mergePdfs returned,
\* compressPdf(mergedBuffer) is called
POST_compress ==
  /\ pc = "merging"
  /\ mpc = "returned"
  /\ compressPdf_call(mergeResult.buffer)
  /\ pc' = "compressing"
  /\ UNCHANGED <<route, formData, fileIdx, allPdfBuffers, response>>
  /\ UNCHANGED mergeVars
  /\ UNCHANGED <<unzipVars, toolVars>>

\* part_001 lines 59-78, part_000 lines 70-88: compressPdf settled
POST_respond ==
  /\ pc = "compressing"
  /\ cpc \in {"returned", "threw"}
  /\ response' =
       IF cpc = "threw"
       THEN JsonError(compressResult.error, 500)
       ELSE PdfResponse(mergeResult.buffer, compressResult.buffer)
  /\ pc' = "done"
  /\ UNCHANGED <<route, formData, fileIdx, allPdfBuffers>>
  /\ UNCHANGED <<mergeVars, compVars>>
  /\ UNCHANGED <<unzipVars, toolVars>>

POST ==
  \/ POST_validate
  \/ POST_pushPdf
  \/ POST_pushZip
  \/ POST_unsupported
  \/ POST_noPdf
  \/ POST_merge
  \/ POST3_validate
  \/ POST3_extract
  \/ POST_mergeThrew
  \/ POST_compress
  \/ POST_respond

(***************************************************************************)
(* Specifications.                                                         *)
(***************************************************************************)
\* One request to POST /api/merge, from its arrival to its response.
Init ==
  /\ MergeIdle
  /\ UnzipIdle
  /\ ToolsIdle
  /\ CompIdle
  /\ variant \in {"sharp", "gs"}
  /\ route \in {"files", "three"}
  /\ formData \in (IF route = "files" THEN FilesForms ELSE ThreeForms)
  /\ fileIdx = 1
  /\ allPdfBuffers = <<>>
  /\ pc = "received"
  /\ response = NoResponse

Next == POST \/ mergePdfs \/ compressPdf

Spec == Init /\ [][Next]_vars

\* mergePdfs called on its own with any list of blobs.
InitMerge ==
  /\ PostIdle
  /\ UnzipIdle
  /\ ToolsIdle
  /\ CompIdle
  /\ variant = "sharp"
  /\ buffers \in SeqsUpTo(BlobCatalogue, MaxBlobs)
  /\ i = 1
  /\ buf = NoBytes
  /\ merged = <<>>
  /\ mpc = "loop"
  /\ mlog = <<>>
  /\ mergeResult = NoResult
  /\ mergeCalls = 1

NextMerge == mergePdfs

SpecMerge == InitMerge /\ [][NextMerge]_vars

\* compressPdf called on its own, either variant, with any buffer.
InitCompress ==
  /\ PostIdle
  /\ UnzipIdle
  /\ ToolsIdle
  /\ MergeIdle
  /\ variant \in {"sharp", "gs"}
  /\ compressArg \in {Buffer("arg", 0, len) : len \in 0..MaxLen}
  /\ inputBuffer = compressArg
  /\ pass = 1
  /\ clog = <<>>
  /\ cpc = "start"
  /\ compressResult = NoResult
  /\ compressCalls = 1

NextCompress == compressPdf

SpecCompress == InitCompress /\ [][NextCompress]_vars

\* extractPdfsFromZip called on its own with any archive.  The entries an
\* archive may hold: PDFs whose names differ by an embedded number, two
\* PDFs of the same name in different directories, an upper-case name, a
\* resource-fork sidecar, hidden files, a directory, a file that is no PDF.
EntryPage1 ==
  ZipEntry(<<"p", "a", "g", "e", "1", ".", "p", "d", "f">>,
           PdfBytes("p1", 1, TRUE, 1))
EntryPage2 ==
  ZipEntry(<<"p", "a", "g", "e", "2", ".", "p", "d", "f">>,
           PdfBytes("p2", 1, TRUE, 1))
EntryPage10 ==
  ZipEntry(<<"p", "a", "g", "e", "1", "0", ".", "p", "d", "f">>,
           PdfBytes("p10", 1, TRUE, 1))
EntryDx ==
  ZipEntry(<<"d", "/", "x", ".", "p", "d", "f">>,
           PdfBytes("dx", 1, TRUE, 1))
EntryEx ==
  ZipEntry(<<"e", "/", "x", ".", "p", "d", "f">>,
           PdfBytes("ex", 1, TRUE, 1))
EntryUpper == ZipEntry(<<"B", ".", "P", "D", "F">>, PdfBytes("B", 1, TRUE, 1))
EntryMac ==
  ZipEntry(<<"_", "_", "M", "A", "C", "O", "S", "X", "/", "x", ".", "p", "d", "f">>,
           PdfBytes("mac", 1, TRUE, 1))
EntryHidden ==
  ZipEntry(<<".", "h", ".", "p", "d", "f">>,
           PdfBytes("h", 1, TRUE, 1))
EntryInnerHidden ==
  ZipEntry(<<"d", "/", ".", "h", ".", "p", "d", "f">>,
           PdfBytes("dh", 1, TRUE, 1))
EntryDir == ZipEntry(<<"d", "/">>, [JunkBytes("dir") EXCEPT !.len = 0])
EntryTxt == ZipEntry(<<"n", ".", "t", "x", "t">>, JunkBytes("txt"))

EntryCatalogue ==
  {EntryPage1, EntryPage2, EntryPage10, EntryDx, EntryEx, EntryUpper,
   EntryMac, EntryHidden, EntryInnerHidden, EntryDir, EntryTxt}

\* an archive holds each of its entries once
Archives ==
  {ZipBytes("zip", es) :
     es \in {s \in SeqsUpTo(EntryCatalogue, MaxEntries) :
               \A a, b \in 1..Len(s) : s[a] = s[b] => a = b}}
    \cup {JunkBytes("junk")}

\* the archive as the user's upload
Upload(zipBytes) == File(<<"u", ".", "z", "i", "p">>, zipBytes)

\* the call: part_003 lines 8-28
extractPdfsFromZip_call ==
  /\ zipBuffer # NoBytes
  /\ zlog = <<>>
  /\ zlog' = <<ZipCall(zipBuffer)>>
  /\ UNCHANGED <<zipBuffer, toolVars>>
  /\ UNCHANGED <<mergeVars, compVars, postVars>>

\* the server is about to read the archive; on the page the user has just
\* chosen it, and the preview is loading
InitUnzip ==
  /\ PostIdle
  /\ ImgIdle
  /\ FsIdle
  /\ HomeIdle
  /\ MergeIdle
  /\ CompIdle
  /\ variant = "sharp"
  /\ zipBuffer \in Archives
  /\ zlog = <<>>
  /\ filesProp = <<Upload(zipBuffer)>>
  /\ changes = 1
  /\ runs = {[id |-> 1, files |-> <<Upload(zipBuffer)>>]}
  /\ fileInfos = <<>>
  /\ loading = TRUE
  /\ listError = ""

NextUnzip == extractPdfsFromZip_call \/ loadFiles_settle

SpecUnzip == InitUnzip /\ [][NextUnzip]_vars

\* reencodeImages called on its own with any document and any quality of
\* the ladder.
InitReencode ==
  /\ PostIdle
  /\ MergeIdle
  /\ CompIdle
  /\ variant = "sharp"
  /\ UnzipIdle
  /\ FsIdle
  /\ PageIdle
  /\ reencArg \in
       {[parses |-> ok, objects |-> objs] :
          ok \in BOOLEAN, objs \in SeqsUpTo(ObjectCatalogue, MaxObjects)}
  /\ rquality \in {QUALITY_PASSES[k] : k \in 1..Len(QUALITY_PASSES)}
  /\ registry = <<>>
  /\ objIdx = 0
  /\ rpc = "start"
  /\ rlog = <<>>
  /\ reencodeResult = NoResult

NextReencode == reencodeImages

SpecReencode == InitReencode /\ [][NextReencode]_vars

\* repairPdf and ghostscriptCompress called on their own, one invocation
\* after another.
InitScratch ==
  /\ PostIdle
  /\ MergeIdle
  /\ CompIdle
  /\ variant = "sharp"
  /\ UnzipIdle
  /\ ImgIdle
  /\ PageIdle
  /\ tool \in Tools
  /\ spc = "mkdtemp"
  /\ tmpDir = 0
  /\ onDisk = {}
  /\ created = 0
  /\ pending = NoResult
  /\ rmLog = <<>>
  /\ scratchResult = NoResult

NextScratch ==
  \/ mkdtemp
  \/ writeFile
  \/ execFileAsync
  \/ readFile
  \/ rm
  \/ invoke

SpecScratch == InitScratch /\ [][NextScratch]_vars

\* the page as the browser opens it
InitPage ==
  /\ PostIdle
  /\ MergeIdle
  /\ CompIdle
  /\ variant = "sharp"
  /\ UnzipIdle
  /\ ImgIdle
  /\ FsIdle
  /\ PageIdle

NextPage ==
  \/ handleFilesSelect
  \/ handleRemoveFile
  \/ loadFiles_settle
  \/ handleMerge
  \/ xhr_upload_progress
  \/ xhr_upload_load
  \/ xhr_load
  \/ reader_onload
  \/ reader_onerror
  \/ xhr_error
  \/ handleReset

SpecPage == InitPage /\ [][NextPage]_vars

(***************************************************************************)
(* Claims.                                                                 *)
(***************************************************************************)
\* what one part contributes to the list: a PDF itself, a ZIP its members
PartBlobs(file) ==
  IF endsWith(toLowerCase(file.name), DotPdf)
  THEN <<file.bytes>>
  ELSE Buffers(extractPdfsFromZip(file.bytes))

RECURSIVE ResolvedBlobs(_)
ResolvedBlobs(files) ==
  IF files = <<>> THEN <<>>
  ELSE PartBlobs(files[1]) \o ResolvedBlobs(Tail(files))

\* the parts of the request in submission order
SubmittedFiles ==
  IF route = "files" THEN uploadedFiles
  ELSE <<get(formData, "pdf"), get(formData, "zip1"), get(formData, "zip2")>>

\* C1: the list handed to mergePdfs is the parts in submission order, a PDF
\* contributing itself and a ZIP its extracted members, in
\* extractPdfsFromZip order, where the ZIP stood; [A.pdf, Z.zip{b.pdf, a.pdf}]
\* gives A.pdf, a.pdf, b.pdf.  The list is compared while mergePdfs runs
\* (pc = "merging"); after that it is the list the route keeps.
C1_ListInSubmissionOrder ==
  /\ mergeCalls > 0 => buffers = allPdfBuffers
  /\ pc = "merging" =>
       /\ buffers = ResolvedBlobs(SubmittedFiles)
       /\ SubmittedFiles = <<FileA, FileZ>> =>
            buffers = <<BlobA, Blob_a, Blob_b>>
       /\ SubmittedFiles = <<FileZ, FileA>> =>
            buffers = <<Blob_a, Blob_b, BlobA>>

C1_Witness ==
  /\ mergeCalls = 1
  /\ route = "files"
  /\ uploadedFiles = <<FileA, FileZ>>
  /\ buffers = <<BlobA, Blob_a, Blob_b>>

\* the positions of the merged document that hold pages of blob idx
PagesOf(idx) == {p \in 1..Len(merged) : merged[p].blob = idx}

\* C2: when mergePdfs returns, the merged document's pages are the pages of
\* every non-empty blob, blob after blob in list order, each blob's pages in
\* its own order; no page of a later blob precedes a page of an earlier one.
C2_PagesInListOrder ==
  mpc = "returned" =>
    /\ \A p, q \in 1..Len(merged) :
         p < q =>
           \/ merged[p].blob < merged[q].blob
           \/ /\ merged[p].blob = merged[q].blob
              /\ merged[p].page < merged[q].page
    /\ \A p \in 1..Len(merged) : merged[p].blob \in 1..Len(buffers)
    /\ \A idx \in 1..Len(buffers) :
         /\ Cardinality(PagesOf(idx)) =
              (IF buffers[idx].len = 0 THEN 0 ELSE buffers[idx].pages)
         /\ \A p \in PagesOf(idx) :
              /\ merged[p].id = buffers[idx].id
              /\ merged[p].page \in 1..buffers[idx].pages

C2_Witness ==
  /\ mpc = "returned"
  /\ buffers = <<BlobA, BlobBad, Blob_a>>
  /\ Len(merged) = 4

\* the ladder of the variant in the build
LadderLen == IF variant = "sharp" THEN Len(QUALITY_PASSES) ELSE Len(GS_PASSES)

LadderQuality(k) ==
  IF variant = "sharp" THEN QUALITY_PASSES[k] ELSE GS_PASSES[k].imageQuality

LadderResolution(k) ==
  IF variant = "sharp" THEN "" ELSE GS_PASSES[k].resolution

\* pass k of the log produced an output within the budget
Within(k) == clog[k].ok /\ clog[k].buffer.len <= MAX_OUTPUT_SIZE

\* C3: the in-process compressPdf, given a buffer of length <=
\* MAX_OUTPUT_SIZE, returns that very buffer and runs no re-encoding pass.
C3_ShortCircuitIdentity ==
  (variant = "sharp" /\ cpc # "idle" /\ compressArg.len <= MAX_OUTPUT_SIZE) =>
    /\ clog = <<>>
    /\ cpc \in {"start", "returned"}
    /\ cpc = "returned" => compressResult = Returned(compressArg)

C3_Witness ==
  /\ variant = "sharp"
  /\ cpc = "returned"
  /\ compressArg.len = MAX_OUTPUT_SIZE
  /\ compressResult = Returned(compressArg)

\* C4: for an input over budget, both variants attempt the tiers in ladder
\* order, and the first tier whose output is within MAX_OUTPUT_SIZE ends
\* the call: that output is returned and no later tier is attempted.
C4_FirstFitWins ==
  (cpc # "idle" /\ compressArg.len > MAX_OUTPUT_SIZE) =>
    /\ Len(clog) <= LadderLen
    /\ \A k \in 1..Len(clog) :
         /\ clog[k].pass = k
         /\ clog[k].quality = LadderQuality(k)
         /\ clog[k].resolution = LadderResolution(k)
         /\ Within(k) =>
              /\ k = Len(clog)
              /\ cpc = "returned"
              /\ compressResult = Returned(clog[k].buffer)

C4_Witness ==
  /\ variant = "gs"
  /\ cpc = "returned"
  /\ compressArg.len > MAX_OUTPUT_SIZE
  /\ Len(clog) = 3
  /\ clog[1].ok
  /\ ~clog[2].ok
  /\ Within(3)

\* the whole ladder was attempted and no tier's output was within budget
LadderExhausted ==
  /\ cpc = "returned"
  /\ Len(clog) = LadderLen
  /\ \A k \in 1..Len(clog) : ~Within(k)

\* the passes of the log that produced an output
Succeeded == {k \in 1..Len(clog) : clog[k].ok}

C6_NoLargerThanFirstTier ==
  LadderExhausted =>
    /\ compressResult.buffer.len > 0
    /\ clog[1].ok => compressResult.buffer.len <= clog[1].buffer.len

\* C7: compressPdf never throws: whatever tiers fail, every call that has
\* not returned can take its next step, the ladder is finite, and the call
\* ends by returning a buffer, over budget or not.
C7_NeverThrows ==
  /\ cpc # "threw"
  /\ compressResult.kind # "error"
  /\ Len(clog) <= LadderLen
  /\ cpc \in {"start", "loop"} => ENABLED compressPdf
  /\ cpc = "returned" =>
       /\ compressResult.kind = "buffer"
       /\ compressResult.buffer # NoBuffer

C7_Witness ==
  /\ cpc = "returned"
  /\ variant = "sharp"
  /\ Len(clog) = LadderLen
  /\ \A k \in 1..Len(clog) : ~clog[k].ok
  /\ compressResult = Returned(compressArg)

\* the log entries of blob idx for one kind of call
Calls(idx, op) ==
  {k \in 1..Len(mlog) : mlog[k].blob = idx /\ mlog[k].op = op}

\* C8: a blob whose first open-and-copy fails is repaired exactly once and
\* retried exactly once, on the repaired bytes; if the repair or the retry
\* fails, mergePdfs rejects, processes no later blob and returns no bytes:
\* a document is never silently skipped.
C8_RepairOnceThenFatal ==
  /\ \A idx \in 1..Len(buffers) :
       /\ Cardinality(Calls(idx, "load")) <= 1
       /\ Cardinality(Calls(idx, "repair")) <= 1
       /\ Cardinality(Calls(idx, "retry")) <= 1
  /\ \A k \in 1..Len(mlog) :
       /\ (mlog[k].op = "load" /\ ~mlog[k].ok) =>
            IF k = Len(mlog) THEN mpc = "repair"
            ELSE /\ mlog[k + 1].op = "repair"
                 /\ mlog[k + 1].blob = mlog[k].blob
                 /\ mlog[k + 1].bytes = mlog[k].bytes
       /\ (mlog[k].op = "repair" /\ mlog[k].ok) =>
            IF k = Len(mlog) THEN mpc = "retry"
            ELSE /\ mlog[k + 1].op = "retry"
                 /\ mlog[k + 1].blob = mlog[k].blob
                 /\ mlog[k + 1].bytes.rev = 1
                 /\ mlog[k + 1].bytes.id = mlog[k].bytes.id
       /\ mlog[k].op = "repair" => k > 1 /\ mlog[k - 1].op = "load"
       /\ mlog[k].op = "retry" => k > 1 /\ mlog[k - 1].op = "repair"
       /\ (mlog[k].op \in {"repair", "retry"} /\ ~mlog[k].ok) =>
            /\ k = Len(mlog)
            /\ mpc = "threw"
            /\ mergeResult.kind = "error"
            /\ mergeResult.buffer = NoBuffer
            /\ i = mlog[k].blob
  /\ mpc = "returned" =>
       \A idx \in 1..Len(buffers) :
         buffers[idx].len # 0 =>
           \E k \in 1..Len(mlog) :
             mlog[k].blob = idx /\ mlog[k].op \in {"load", "retry"} /\ mlog[k].ok

C8_Witness ==
  /\ mpc = "threw"
  /\ Len(mlog) = 4
  /\ mlog[4].op = "retry"
  /\ ~mlog[4].ok
  /\ mlog[4].blob < Len(buffers)
  /\ buffers[Len(buffers)].len # 0

\* C9: given an empty list, or only zero-length blobs, mergePdfs fails with
\* "No valid PDF pages could be merged"; no zero-length blob is ever parsed
\* or repaired.
C9_EmptyMergeFails ==
  /\ \A k \in 1..Len(mlog) : buffers[mlog[k].blob].len # 0
  /\ (mpc # "idle" /\ \A idx \in 1..Len(buffers) : buffers[idx].len = 0) =>
       /\ mlog = <<>>
       /\ merged = <<>>
       /\ mpc \in {"loop", "threw"}
       /\ mpc = "loop" => ENABLED mergePdfs
       /\ mpc = "threw" => mergeResult = Thrown(NoValidPages)

C9_Witness ==
  /\ mpc = "threw"
  /\ buffers = <<BlobEmpty, BlobEmpty>>
  /\ mergeResult = Thrown(NoValidPages)

\* no part contributes a blob
ResolvesNothing(files) ==
  \A k \in 1..Len(files) : Len(PartBlobs(files[k])) = 0

\* every part of a "files" request can be walked: a PDF or a readable ZIP
Walkable ==
  \A k \in 1..Len(uploadedFiles) :
    \/ endsWith(toLowerCase(uploadedFiles[k].name), DotPdf)
    \/ /\ endsWith(toLowerCase(uploadedFiles[k].name), DotZip)
       /\ uploadedFiles[k].bytes.isZip

\* C10: if the list of PDF blobs resolved from the request is empty, the
\* request ends with an {error} payload and a non-success status, and
\* neither mergePdfs nor compressPdf is invoked.
C10_EmptyInputRejected ==
  (route = "files" /\ ResolvesNothing(uploadedFiles) /\ Walkable) =>
    /\ mergeCalls = 0
    /\ compressCalls = 0
    /\ pc \in {"received", "walk", "done"}
    /\ pc # "done" => ENABLED POST
    /\ pc = "done" =>
         /\ response.status \notin {0, 200}
         /\ response.error # ""
         /\ response.body = NoBuffer

C10_Witness ==
  /\ pc = "done"
  /\ route = "files"
  /\ uploadedFiles = <<FileNoPdfZip>>
  /\ response.status = 400
  /\ mergeCalls = 0

\* the parts named *.zip whose bytes are no archive
BrokenZipParts ==
  {k \in 1..Len(formData) :
     /\ ~formData[k].file.bytes.isZip
     /\ endsWith(toLowerCase(formData[k].file.name), DotZip)}

\* C11: a ZIP part that cannot be read as an archive makes extractPdfsFromZip
\* throw; the request then ends with an {error} payload and a non-success
\* status, the extraction is not tried again, and no PDF body is returned,
\* whatever the other parts are.
C11_BrokenArchiveIsFatal ==
  /\ \A k \in 1..Len(zlog) :
       /\ zlog[k].threw <=> ~zlog[k].zip.isZip
       /\ zlog[k].threw =>
            /\ zlog[k].out = <<>>
            /\ k = Len(zlog)
            /\ pc = "done"
            /\ response = JsonError(ZipError, 500)
  /\ BrokenZipParts # {} =>
       /\ mergeCalls = 0
       /\ compressCalls = 0
       /\ pc \in {"received", "walk", "extract", "done"}
       /\ pc = "done" =>
            /\ response.status \notin {0, 200}
            /\ response.error # ""
            /\ response.body = NoBuffer

C11_Witness ==
  /\ pc = "done"
  /\ uploadedFiles = <<FileA, FileBrokenZip>>
  /\ allPdfBuffers = <<BlobA>>
  /\ Len(zlog) = 1
  /\ zlog[1].threw
  /\ response = JsonError(ZipError, 500)

\* the order the claim names: letters without case, a run of digits as the
\* number it writes
NaturalCompare(a, b) ==
  CompareKeys(PrimaryKey(toLowerCase(a)), PrimaryKey(toLowerCase(b)))

\* C12: the list extractPdfsFromZip returns is in ascending order of the
\* members' final path segments, compared without case and with embedded
\* integers as numbers: page2.pdf, page10.pdf, page1.pdf come out as page1,
\* page2, page10.
C12_NaturalOrder ==
  \A c \in 1..Len(zlog) :
    LET out == zlog[c].out
    IN /\ \A j \in 1..(Len(out) - 1) :
            NaturalCompare(out[j].name, out[j + 1].name) <= 0
       /\ zlog[c].zip.entries = <<EntryPage2, EntryPage10, EntryPage1>> =>
            Buffers(out) = <<EntryPage1.data, EntryPage2.data, EntryPage10.data>>

C12_Witness ==
  /\ Len(zlog) = 1
  /\ zipBuffer.entries = <<EntryPage2, EntryPage10, EntryPage1>>
  /\ Buffers(zlog[1].out) =
       <<EntryPage1.data, EntryPage2.data, EntryPage10.data>>

\* the orders in which n entries can be stored
Orders(n) ==
  {f \in [1..n -> 1..n] : \A x, y \in 1..n : f[x] = f[y] => x = y}

\* the same members, stored in the order f
Reordered(zipBytes, f) ==
  [zipBytes EXCEPT !.entries = [k \in 1..Len(zipBytes.entries) |->
                                 zipBytes.entries[f[k]]]]

\* C13: the output of extractPdfsFromZip depends only on the members an
\* archive holds, not on the order they are stored in: the same members in
\* another order give the same sequence, also when two members in different
\* directories share their final path segment.
C13_OrderIndependent ==
  \A c \in 1..Len(zlog) :
    ~zlog[c].threw =>
      \A f \in Orders(Len(zlog[c].zip.entries)) :
        extractPdfsFromZip(Reordered(zlog[c].zip, f)) = zlog[c].out

\* the entries the claim lets through, in the claim's words
Qualifies(entry) ==
  LET path == entry.entryName
      n == Len(path)
  IN /\ ~(n >= 1 /\ path[n] = "/")
     /\ ~(n >= 8 /\ SubSeq(path, 1, 8) = <<"_", "_", "M", "A", "C", "O", "S", "X">>)
     /\ ~(n >= 1 /\ path[1] = ".")
     /\ n >= 4
     /\ path[n - 3] = "."
     /\ path[n - 2] \in {"p", "P"}
     /\ path[n - 1] \in {"d", "D"}
     /\ path[n] \in {"f", "F"}

\* how often the record r stands in the list
Occurrences(list, r) == Cardinality({k \in 1..Len(list) : list[k] = r})

\* C14: the output holds, each exactly once, the entries that are no
\* directories, whose path begins neither with "__MACOSX" nor with ".", and
\* whose path ends in ".pdf" whatever the case; nothing else; each under the
\* final segment of its path.
C14_FilterExact ==
  \A c \in 1..Len(zlog) :
    ~zlog[c].threw =>
      LET entries == zlog[c].zip.entries
          out == zlog[c].out
          wanted == SelectSeq(entries, Qualifies)
          asOutput == [k \in 1..Len(wanted) |->
                         [name |-> LastSegment(wanted[k].entryName),
                          buffer |-> wanted[k].data]]
      IN /\ Len(out) = Len(wanted)
         /\ \A k \in 1..Len(out) :
              Occurrences(out, out[k]) = Occurrences(asOutput, out[k])
         /\ \A k \in 1..Len(asOutput) :
              Occurrences(out, asOutput[k]) = Occurrences(asOutput, asOutput[k])

C14_Witness ==
  /\ Len(zlog) = 1
  /\ zipBuffer.entries = <<EntryHidden, EntryInnerHidden, EntryUpper>>
  /\ Len(zlog[1].out) = 2
  /\ zlog[1].out[1].name = <<".", "h", ".", "p", "d", "f">>
  /\ zlog[1].out[1].buffer = EntryInnerHidden.data
  /\ zlog[1].out[2].name = <<"B", ".", "P", "D", "F">>

\* C15: on every success response X-Original-Size is the length of what
\* mergePdfs returned, and X-Final-Size the length of what compressPdf
\* returned, which is also the Content-Length and the length of the body.
C15_SizesReported ==
  response.status = 200 =>
    /\ pc = "done"
    /\ mpc = "returned"
    /\ cpc = "returned"
    /\ response.xOriginalSize = mergeResult.buffer.len
    /\ response.xOriginalSize = SavedLen(merged)
    /\ response.xFinalSize = compressResult.buffer.len
    /\ response.contentLength = compressResult.buffer.len
    /\ response.body = compressResult.buffer
    /\ response.body.len = response.xFinalSize
    /\ response.error = ""

C15_Witness ==
  /\ response.status = 200
  /\ variant = "gs"
  /\ response.xOriginalSize = 4
  /\ response.xFinalSize = 1
  /\ response.body.len = 1

\* C16: when the attempt of a tier before the last one fails, the failure
\* is absorbed: compressPdf does not throw, the next tier is attempted, and
\* it receives the bytes the failed tier received.
C16_TierFailureAbsorbed ==
  /\ cpc # "threw"
  /\ \A k \in 1..Len(clog) :
       (~clog[k].ok /\ k < LadderLen) =>
         IF k < Len(clog)
         THEN /\ clog[k + 1].pass = k + 1
              /\ clog[k + 1].input = clog[k].input
         ELSE /\ cpc = "loop"
              /\ pass = k + 1
              /\ inputBuffer = clog[k].input
              /\ ENABLED (compressPdf_pass \/ compressPdf_gsPass)

C16_Witness ==
  /\ variant = "gs"
  /\ Len(clog) = 3
  /\ clog[1].ok
  /\ ~clog[2].ok
  /\ clog[2].input = clog[1].buffer
  /\ clog[3].input = clog[1].buffer
  /\ clog[3].ok


\* the outcomes of the loop body in which a call raised
Raised == {"decodeError", "encodeError", "updateError"}

\* C17: reencodeImages: an image whose decoding, encoding or update raises
\* keeps its stream data and its dictionary (Filter, DecodeParms) as they
\* were before the pass; the loop goes on to every remaining object (the
\* objects are visited once each, in table order, and the pass returns only
\* after the last); the pass does not throw once the document has loaded.
C17_BadImageLeftAlone ==
  /\ rpc \in {"loop", "returned"} =>
       /\ objIdx = Len(rlog) + 1
       /\ Len(registry) = Len(reencArg.objects)
       /\ \A k \in 1..Len(rlog) :
            /\ rlog[k].obj = k
            /\ rlog[k].did \in Raised =>
                 /\ registry[k] = reencArg.objects[k]
                 /\ registry[k].data = reencArg.objects[k].data
                 /\ registry[k].filter = reencArg.objects[k].filter
                 /\ registry[k].decodeParms = reencArg.objects[k].decodeParms
  /\ rpc = "returned" =>
       /\ Len(rlog) = Len(reencArg.objects)
       /\ reencodeResult.kind = "buffer"
  /\ rpc = "threw" => (~reencArg.parses /\ rlog = <<>>)

\* the first image raised in the encoder, the second was re-encoded after
\* it, and the pass returned
C17_Witness ==
  /\ rpc = "returned"
  /\ Len(rlog) = 2
  /\ rlog[1].did = "encodeError"
  /\ rlog[2].did = "replaced"
  /\ registry[1] = reencArg.objects[1]
  /\ registry[2] # reencArg.objects[2]

\* a raw image the loop works on: an image that is no JPEG, decodes to a
\* payload that is not empty, with eight bits per component
IsRawImage(obj) ==
  /\ IsImage(obj)
  /\ ~IsDct(obj.filter)
  /\ obj.decodes
  /\ obj.decodedLen > 0
  /\ obj.bitsPerComponent = 8

\* C18: reencodeImages: a raw image whose decoded length differs from
\* width * height * channels (1 for Gray, 4 for CMYK, 3 otherwise) is left
\* as it was, and the pass does not throw.
C18_InconsistentLeftAlone ==
  /\ rpc \in {"loop", "returned"} =>
       \A k \in 1..Len(rlog) :
         (/\ IsRawImage(reencArg.objects[k])
          /\ reencArg.objects[k].decodedLen # ExpectedLen(reencArg.objects[k]))
           => registry[k] = reencArg.objects[k]
  /\ rpc = "threw" => ~reencArg.parses

\* what line 106 does guard: a payload shorter than the product is never
\* handed to the encoder
C18_ShortLeftAlone ==
  rpc \in {"loop", "returned"} =>
    \A k \in 1..Len(rlog) :
      (/\ IsRawImage(reencArg.objects[k])
       /\ reencArg.objects[k].decodedLen < ExpectedLen(reencArg.objects[k]))
        => (rlog[k].did = "continue" /\ registry[k] = reencArg.objects[k])


\* C19: repairPdf and ghostscriptCompress: when an invocation has returned or
\* thrown (Ghostscript succeeded, failed or timed out, the input could not be
\* written or the output not read), its scratch directory no longer exists,
\* and no earlier invocation has left one behind.
C19_ScratchRemoved ==
  spc \in {"returned", "threw"} => (tmpDir \notin onDisk /\ onDisk = {})

\* what the finally block does guarantee: every invocation that created a
\* directory has attempted its removal once before it returned or threw,
\* and a directory exists afterwards only if that attempt failed
RemovalAttempted ==
  spc \in {"returned", "threw"} =>
    /\ Len(rmLog) = created
    /\ \A d \in 1..created :
         /\ rmLog[d].dir = d
         /\ d \in onDisk <=> ~rmLog[d].removed

\* an invocation that returned the output while its directory stayed
LeftBehind ==
  /\ spc = "returned"
  /\ tmpDir \in onDisk
  /\ scratchResult.kind = "buffer"


\* C21: the Ghostscript compressPdf, given a buffer of length <=
\* MAX_OUTPUT_SIZE, returns that very buffer and does not run the tool.
C21_GsShortCircuitIdentity ==
  (variant = "gs" /\ cpc # "idle" /\ compressArg.len <= MAX_OUTPUT_SIZE) =>
    /\ clog = <<>>
    /\ cpc = "returned" => compressResult = Returned(compressArg)


\* C22: reencodeImages: every image stream whose data was replaced by JPEG
\* bytes has Filter DCTDecode and no DecodeParms entry, and every object's
\* Width and Height are what they were before the pass.
C22_ReplacedIsPlainJpeg ==
  rpc \in {"loop", "returned"} =>
    /\ \A k \in 1..Len(rlog) :
         rlog[k].did = "replaced" =>
           /\ registry[k].filter = "DCTDecode"
           /\ ~registry[k].decodeParms
    /\ \A k \in 1..Len(registry) :
         /\ registry[k].width = reencArg.objects[k].width
         /\ registry[k].height = reencArg.objects[k].height

\* C23: reencodeImages: the data of an image that is already a JPEG is
\* replaced only by a JPEG strictly shorter than the data it had; when the
\* new JPEG is as long or longer, data and dictionary stay as they were.
C23_JpegReplacedOnlyIfShorter ==
  rpc \in {"loop", "returned"} =>
    \A k \in 1..Len(rlog) :
      (/\ reencArg.objects[k].isStream
       /\ reencArg.objects[k].subtype = "Image"
       /\ reencArg.objects[k].filter = "DCTDecode") =>
        /\ registry[k] # reencArg.objects[k] =>
             /\ registry[k].data.len < reencArg.objects[k].data.len
             /\ registry[k].data.len = rlog[k].encoded
        /\ (rlog[k].encoded >= reencArg.objects[k].data.len) =>
             registry[k] = reencArg.objects[k]

\* the first JPEG came back as long as it was and stayed, the second came
\* back shorter and was replaced
C23_Witness ==
  /\ rpc = "returned"
  /\ Len(rlog) = 2
  /\ reencArg.objects[1].filter = "DCTDecode"
  /\ reencArg.objects[2].filter = "DCTDecode"
  /\ rlog[1].did = "kept"
  /\ rlog[1].encoded = reencArg.objects[1].data.len
  /\ registry[1] = reencArg.objects[1]
  /\ rlog[2].did = "replaced"
  /\ registry[2].data.len < reencArg.objects[2].data.len

\* the gates an object passes before the loop may change it: a stream with
\* Subtype Image, Width and Height of at least 2 and, unless it is a JPEG,
\* eight bits per sample
PassesGates(obj) ==
  /\ obj.isStream
  /\ obj.subtype = "Image"
  /\ obj.width >= 2
  /\ obj.height >= 2
  /\ obj.filter = "DCTDecode" \/ obj.bitsPerComponent = 8

\* C24: reencodeImages leaves unmodified every object that is no image
\* stream, every image whose Width or Height is missing or below 2 and
\* every raw image whose bits per sample is not 8.
C24_OnlyGatedImagesChange ==
  rpc \in {"loop", "returned"} =>
    \A k \in 1..Len(registry) :
      ~PassesGates(reencArg.objects[k]) => registry[k] = reencArg.objects[k]

\* a pass that went by an object failing a gate and re-encoded the image
\* after it
C24_Witness ==
  /\ rpc = "returned"
  /\ Len(rlog) = 2
  /\ ~PassesGates(reencArg.objects[1])
  /\ reencArg.objects[1].isStream
  /\ registry[1] = reencArg.objects[1]
  /\ rlog[2].did = "replaced"
  /\ registry[2] # reencArg.objects[2]

\* C27: reencodeImages never makes an image larger: the stored data of every
\* stream after the pass is no longer than its stored data before the pass.
C27_NeverLarger ==
  rpc \in {"loop", "returned"} =>
    \A k \in 1..Len(registry) :
      registry[k].isStream =>
        registry[k].data.len <= reencArg.objects[k].data.len


\* C25: with either compressPdf, on every success response the final size is
\* no larger than the original size: the document returned is never larger
\* than the merged document.
C25_NeverLargerThanMerged ==
  response.status = 200 => response.xFinalSize <= response.xOriginalSize


\* C26: mergePdfs: no page of any blob is in the merged document twice; a
\* blob that went through the repair path has its pages there once, from
\* the retry alone.
C26_PagesAtMostOnce ==
  /\ \A p, q \in 1..Len(merged) :
       (merged[p].blob = merged[q].blob /\ merged[p].page = merged[q].page)
         => p = q
  /\ \A b \in 1..Len(buffers) :
       Cardinality({p \in 1..Len(merged) : merged[p].blob = b})
         <= buffers[b].pages

\* a blob whose first attempt failed was repaired and merged, and the merged
\* document holds each of its pages once
C26_Witness ==
  /\ mpc = "returned"
  /\ \E k \in 1..Len(mlog) :
       /\ mlog[k].op = "retry"
       /\ mlog[k].ok
       /\ buffers[mlog[k].blob].pages > 0
       /\ Cardinality({p \in 1..Len(merged) : merged[p].blob = mlog[k].blob})
            = buffers[mlog[k].blob].pages
       /\ Len(merged) > buffers[mlog[k].blob].pages


\* the names of a list of rows or of extracted PDFs
Names(list) == [k \in 1..Len(list) |-> list[k].name]

\* C29: for any uploaded ZIP the members PDFFileList shows are the members
\* extractPdfsFromZip returns on the server, in the same order.
C29_PreviewIsMergeOrder ==
  (/\ zlog # <<>>
   /\ ~zlog[1].threw
   /\ runs = {}
   /\ listError = ""
   /\ filesProp = <<Upload(zipBuffer)>>)
    => Names(fileInfos) = Names(zlog[1].out)


\* C28: PDFFileList: once every loadFiles run that was started has
\* completed, the rows shown are those computed from the latest files prop,
\* never those of an earlier prop.  (Stated for the props under which the
\* component renders its list: not empty, every file readable.)
C28_LatestPropShown ==
  (runs = {} /\ filesProp # <<>> /\ ~LoadFails(filesProp))
    => fileInfos = FileList(filesProp)

\* the requests that can still deliver an event
InFlight == {k \in 1..Len(requests) : requests[k].phase # "finished"}

\* C30: Home: at most one merge request is in flight; every request was
\* started in status idle or error when every earlier request had finished;
\* status is done only after a response with HTTP status 200; and while
\* status is done the download URL is the object URL made from the latest
\* response, not empty and not revoked.
C30_OneRequestOneResult ==
  /\ Cardinality(InFlight) <= 1
  /\ \A k \in 1..Len(requests) :
       /\ requests[k].allowed
       /\ requests[k].alone
  /\ status \in {"idle", "error"} => InFlight = {}
  /\ status = "done" =>
       /\ requests # <<>>
       /\ requests[Len(requests)].phase = "finished"
       /\ requests[Len(requests)].ended = "load"
       /\ requests[Len(requests)].http = 200
       /\ downloadUrl # 0
       /\ downloadUrl = requests[Len(requests)].url
       /\ downloadUrl \in objectUrls

\* a second merge, after a reset, is done: its URL is shown, not the first
C30_Witness ==
  /\ status = "done"
  /\ Len(requests) = 2
  /\ requests[1].http = 200
  /\ requests[2].http = 200
  /\ downloadUrl = requests[2].url
  /\ downloadUrl # requests[1].url

=============================================================================
